---- MODULE Spec2Model ----
(***************************************************************************)
(* Model of the file migrator: the catalog table repl_AV_ATF (db.py), the  *)
(* flat and date-partitioned directory trees (file_ops.py) and the         *)
(* migration loop that moves files and marks rows (migrator.py).           *)
(***************************************************************************)
EXTENDS Integers, Sequences, FiniteSets, TLC

\* ------------------------------------------------------------------------
\* Bounds of the model
\* ------------------------------------------------------------------------
MaxTime == 2          \* timestamps returned by datetime.now() are 1..MaxTime
MaxBatchSize == 2     \* batch sizes and caps passed by a caller are 1..MaxBatchSize
MaxBatches == 2       \* batches one migrate_all call starts
MaxFiles == 3         \* files in the partitioned tree under direct calls

\* Python None and SQL NULL; a value that is set is a non-empty tuple
None == << >>

\* Record identifiers, as character sequences: "a", "a_1", "b.t"
Ids == { <<"a">>, <<"a", "_", "1">>, <<"b", ".", "t">> }

\* File names the direct file-system calls are tried on
WriteNames == { <<"a">>, <<"b", ".", "t">>, <<".", "t">> }
Names == Ids \cup WriteNames

\* Registered datetimes <<day, time of day>>: two instants of day 0, one of day 1
DateTimes == { <<0, 0>>, <<0, 1>>, <<1, 0>> }
Days == { d[1] : d \in DateTimes }

\* File contents; "" is the empty file
Contents == { "", "x", "y", "z", "w" }

\* What the file of each record holds in the flat directory
SourceContent(id) ==
    CASE id = <<"a">> -> "x" [] id = <<"a", "_", "1">> -> "y" [] OTHER -> "z"

Times == 1..MaxTime

\* Comparison of two datetimes
DtLess(d, e) == d[1] < e[1] \/ (d[1] = e[1] /\ d[2] < e[2])
DtLeq(d, e) == d = e \/ DtLess(d, e)

\* ------------------------------------------------------------------------
\* Strings
\* ------------------------------------------------------------------------
DigitChar(d) ==
    CASE d = 0 -> "0" [] d = 1 -> "1" [] d = 2 -> "2" [] d = 3 -> "3"
      [] d = 4 -> "4" [] d = 5 -> "5" [] d = 6 -> "6" [] d = 7 -> "7"
      [] d = 8 -> "8" [] OTHER -> "9"

\* str(counter) in the f-string of _get_unique_filename
RECURSIVE IntToStr(_)
IntToStr(n) ==
    IF n < 10 THEN <<DigitChar(n)>>
    ELSE IntToStr(n \div 10) \o <<DigitChar(n % 10)>>

\* filename.rsplit('.', 1): one part when there is no '.', else the text
\* before the last '.' and the text after it
rsplit(filename) ==
    LET dots == { i \in 1..Len(filename) : filename[i] = "." }
    IN  IF dots = {} THEN << filename >>
        ELSE LET k == CHOOSE i \in dots : \A j \in dots : j <= i
             IN  << SubSeq(filename, 1, k - 1),
                    SubSeq(filename, k + 1, Len(filename)) >>

\* Code points of the characters used, for ORDER BY ... IDFL ASC
CharRank(c) ==
    CASE c = "." -> 46 [] c = "0" -> 48 [] c = "1" -> 49 [] c = "2" -> 50
      [] c = "3" -> 51 [] c = "_" -> 95 [] c = "a" -> 97 [] c = "b" -> 98
      [] c = "t" -> 116 [] OTHER -> 127

RECURSIVE StrLess(_, _)
StrLess(s, t) ==
    IF t = << >> THEN FALSE
    ELSE IF s = << >> THEN TRUE
    ELSE IF CharRank(Head(s)) # CharRank(Head(t))
         THEN CharRank(Head(s)) < CharRank(Head(t))
    ELSE StrLess(Tail(s), Tail(t))

\* ------------------------------------------------------------------------
\* Catalog Store (db.py)
\* ------------------------------------------------------------------------
\* One row of repl_AV_ATF as a query returns it
Row(cat, id) ==
    [ IDFL |-> id, dt |-> cat[id].dt,
      ismooved |-> cat[id].ismooved, dtmoove |-> cat[id].dtmoove ]

\* ORDER BY dt ASC, IDFL ASC
RowLess(cat, a, b) ==
    \/ DtLess(cat[a].dt, cat[b].dt)
    \/ cat[a].dt = cat[b].dt /\ StrLess(a, b)

RECURSIVE OrderBy(_, _)
OrderBy(cat, S) ==
    IF S = {} THEN << >>
    ELSE LET m == CHOOSE a \in S : \A b \in S \ {a} : RowLess(cat, a, b)
         IN  << Row(cat, m) >> \o OrderBy(cat, S \ {m})

\* Mutant of Limit: the LIMIT clause is lost
Limit_all(rows, n) == rows

\* LIMIT n
Limit(rows, n) == SubSeq(rows, 1, IF n < Len(rows) THEN n ELSE Len(rows))

\* Mutant of get_files_to_move: the WHERE ismooved = 0 filter is lost
get_files_to_move_nofilter(cat, batch_size) ==
    Limit(OrderBy(cat, DOMAIN cat), batch_size)

\* Mutant of get_files_to_move: ORDER BY IDFL ASC alone
get_files_to_move_byid(cat, batch_size) ==
    LET same == [ id \in DOMAIN cat |-> [ cat[id] EXCEPT !.dt = << 0, 0 >> ] ]
        byid == OrderBy(same, { id \in DOMAIN cat : ~cat[id].ismooved })
    IN  Limit([ i \in 1..Len(byid) |-> Row(cat, byid[i].IDFL) ], batch_size)

\* Mutant of get_files_to_move: ORDER BY ... DESC
get_files_to_move_desc(cat, batch_size) ==
    LET asc == OrderBy(cat, { id \in DOMAIN cat : ~cat[id].ismooved })
    IN  Limit([ i \in 1..Len(asc) |-> asc[Len(asc) + 1 - i] ], batch_size)

get_files_to_move(cat, batch_size) ==
    Limit(OrderBy(cat, { id \in DOMAIN cat : ~cat[id].ismooved }), batch_size)

\* Mutant of get_files_by_date_range: the upper end of the range is left out
get_files_by_date_range_open(cat, start_date, end_date) ==
    OrderBy(cat, { id \in DOMAIN cat :
                     DtLeq(start_date, cat[id].dt) /\ DtLess(cat[id].dt, end_date) })

get_files_by_date_range(cat, start_date, end_date) ==
    OrderBy(cat, { id \in DOMAIN cat :
                     DtLeq(start_date, cat[id].dt) /\ DtLeq(cat[id].dt, end_date) })

\* The UPDATE of mark_file_moved, when the statement executes
UpdateMoved(cat, idfl, dtmoove) ==
    [ id \in DOMAIN cat |->
        IF id = idfl /\ ~cat[id].ismooved
        THEN [ cat[id] EXCEPT !.ismooved = TRUE, !.dtmoove = << dtmoove >> ]
        ELSE cat[id] ]

\* Mutant of mark_file_moved: a query that failed is reported as done
mark_file_moved_silent(cat, idfl, dtmoove, outcome) ==
    CASE outcome = "ok" ->
           [ catalog |-> UpdateMoved(cat, idfl, dtmoove),
             raised |-> FALSE, result |-> TRUE ]
      [] outcome = "query_error" ->
           [ catalog |-> cat, raised |-> FALSE, result |-> TRUE ]
      [] OTHER ->
           [ catalog |-> cat, raised |-> TRUE, result |-> FALSE ]

\* Mutant of mark_file_moved: a blind update, without AND ismooved = 0
mark_file_moved_blind(cat, idfl, dtmoove, outcome) ==
    CASE outcome = "ok" ->
           [ catalog |-> [ id \in DOMAIN cat |->
                             IF id = idfl
                             THEN [ cat[id] EXCEPT !.ismooved = TRUE,
                                                   !.dtmoove = << dtmoove >> ]
                             ELSE cat[id] ],
             raised |-> FALSE, result |-> TRUE ]
      [] outcome = "query_error" ->
           [ catalog |-> cat, raised |-> FALSE, result |-> FALSE ]
      [] OTHER ->
           [ catalog |-> cat, raised |-> TRUE, result |-> FALSE ]

\* Mutant of mark_file_moved: the flag is set but dtmoove is not written
mark_file_moved_flagonly(cat, idfl, dtmoove, outcome) ==
    CASE outcome = "ok" ->
           [ catalog |-> [ id \in DOMAIN cat |->
                             IF id = idfl /\ ~cat[id].ismooved
                             THEN [ cat[id] EXCEPT !.ismooved = TRUE ]
                             ELSE cat[id] ],
             raised |-> FALSE, result |-> TRUE ]
      [] outcome = "query_error" ->
           [ catalog |-> cat, raised |-> FALSE, result |-> FALSE ]
      [] OTHER ->
           [ catalog |-> cat, raised |-> TRUE, result |-> FALSE ]

\* mark_file_moved: outcome "ok" runs and commits the UPDATE and returns True;
\* "query_error" is a mysql Error (rolled back, wrapped in DatabaseQueryError,
\* caught here, returns False); "conn_error" is the DatabaseConnectionError
\* of _get_connection, which no handler of this method catches.
mark_file_moved(cat, idfl, dtmoove, outcome) ==
    CASE outcome = "ok" ->
           [ catalog |-> UpdateMoved(cat, idfl, dtmoove),
             raised |-> FALSE, result |-> TRUE ]
      [] outcome = "query_error" ->
           [ catalog |-> cat, raised |-> FALSE, result |-> FALSE ]
      [] OTHER ->
           [ catalog |-> cat, raised |-> TRUE, result |-> FALSE ]

DbOutcomes == { "ok", "query_error", "conn_error" }

\* insert_new_file: INSERT ... ismooved 0 ... ON DUPLICATE KEY UPDATE
\* filename, dt: a new IDFL gets an unmoved row, an IDFL already in the
\* table keeps its ismooved and dtmoove and takes the new dt; a query that
\* fails is a DatabaseQueryError, caught here: the method returns False
insert_new_file(cat, idfl, dt, outcome) ==
    IF outcome # "ok"
    THEN [ catalog |-> cat, result |-> FALSE ]
    ELSE [ catalog |->
             [ id \in DOMAIN cat \cup { idfl } |->
                 IF id # idfl THEN cat[id]
                 ELSE IF id \in DOMAIN cat THEN [ cat[id] EXCEPT !.dt = dt ]
                 ELSE [ dt |-> dt, ismooved |-> FALSE, dtmoove |-> None ] ],
           result |-> TRUE ]

\* ------------------------------------------------------------------------
\* Placement Engine (file_ops.py)
\* A file system is [base, dirs, newfs]: base maps the names present in the
\* flat directory to their content, dirs is the set of date directories that
\* exist, newfs maps the paths <<date directory, name>> present to content.
\* ------------------------------------------------------------------------
\* dt.strftime("%Y%m%d"): the calendar day, the time of day is dropped
strftime(dt) == dt[1]

\* Mutant of _get_date_directory: the directory of one fixed day, whatever
\* the date of the record
_get_date_directory_fixed(dt) == strftime(<< 0, 0 >>)

\* _get_date_directory: new_base_path / date_str
_get_date_directory(dt) == strftime(dt)

Put(f, k, v) == [ x \in DOMAIN f \cup {k} |-> IF x = k THEN v ELSE f[x] ]
Remove(f, k) == [ x \in DOMAIN f \ {k} |-> f[x] ]

\* _ensure_date_directory_exists: mkdir(parents=True, exist_ok=True)
_ensure_date_directory_exists(fs, dt) ==
    [ fs EXCEPT !.dirs = @ \cup { _get_date_directory(dt) } ]

\* The while loop of _get_unique_filename
RECURSIVE Probe(_, _, _, _, _)
Probe(fs, directory, base_name, extension, counter) ==
    LET new_name == base_name \o <<"_">> \o IntToStr(counter) \o extension
        new_path == << directory, new_name >>
    IN  IF new_path \notin DOMAIN fs.newfs THEN new_path
        ELSE Probe(fs, directory, base_name, extension, counter + 1)

\* Mutant of _get_unique_filename: the suffix goes after the whole name
_get_unique_filename_append(fs, directory, filename) ==
    IF << directory, filename >> \notin DOMAIN fs.newfs
    THEN << directory, filename >>
    ELSE Probe(fs, directory, filename, << >>, 1)

_get_unique_filename(fs, directory, filename) ==
    LET base_path == << directory, filename >>
        name_parts == rsplit(filename)
        base_name == IF Len(name_parts) = 2 THEN name_parts[1] ELSE filename
        extension == IF Len(name_parts) = 2 THEN <<".">> \o name_parts[2]
                     ELSE << >>
    IN  IF base_path \notin DOMAIN fs.newfs THEN base_path
        ELSE Probe(fs, directory, base_name, extension, 1)

\* Mutant of move_file: the target is not probed, the move replaces it
move_file_overwrite(fs, idfl, dt, moveOk) ==
    IF idfl \notin DOMAIN fs.base
    THEN [ fs |-> fs, raised |-> "FileNotFoundError", path |-> None ]
    ELSE LET fs1 == _ensure_date_directory_exists(fs, dt)
             target_path == << _get_date_directory(dt), idfl >>
         IN  IF moveOk
             THEN [ fs |-> [ fs1 EXCEPT
                               !.base = Remove(@, idfl),
                               !.newfs = Put(@, target_path, fs.base[idfl]) ],
                    raised |-> "", path |-> target_path ]
             ELSE [ fs |-> fs1, raised |-> "FileOperationError", path |-> None ]

\* Mutant of move_file: the file is copied, the source stays in base
move_file_copy(fs, idfl, dt, moveOk) ==
    IF idfl \notin DOMAIN fs.base
    THEN [ fs |-> fs, raised |-> "FileNotFoundError", path |-> None ]
    ELSE LET fs1 == _ensure_date_directory_exists(fs, dt)
             target_dir == _get_date_directory(dt)
             target_path == IF << target_dir, idfl >> \in DOMAIN fs1.newfs
                            THEN _get_unique_filename(fs1, target_dir, idfl)
                            ELSE << target_dir, idfl >>
         IN  IF moveOk
             THEN [ fs |-> [ fs1 EXCEPT
                               !.newfs = Put(@, target_path, fs.base[idfl]) ],
                    raised |-> "", path |-> target_path ]
             ELSE [ fs |-> fs1, raised |-> "FileOperationError", path |-> None ]

\* Mutant of move_file: the file arrives empty
move_file_lossy(fs, idfl, dt, moveOk) ==
    IF idfl \notin DOMAIN fs.base
    THEN [ fs |-> fs, raised |-> "FileNotFoundError", path |-> None ]
    ELSE
    LET fs1 == _ensure_date_directory_exists(fs, dt)
        target_dir == _get_date_directory(dt)
        target_path == IF << target_dir, idfl >> \in DOMAIN fs1.newfs
                       THEN _get_unique_filename(fs1, target_dir, idfl)
                       ELSE << target_dir, idfl >>
    IN  IF moveOk
        THEN [ fs |-> [ fs1 EXCEPT
                          !.base = Remove(@, idfl),
                          !.newfs = Put(@, target_path, "") ],
               raised |-> "", path |-> target_path ]
        ELSE [ fs |-> fs1, raised |-> "FileOperationError", path |-> None ]

\* Mutant of move_file: the date directory is created before the source is
\* looked for
move_file_mkdirfirst(fs, idfl, dt, moveOk) ==
    LET fs1 == _ensure_date_directory_exists(fs, dt)
        target_dir == _get_date_directory(dt)
        target_path == IF << target_dir, idfl >> \in DOMAIN fs1.newfs
                       THEN _get_unique_filename(fs1, target_dir, idfl)
                       ELSE << target_dir, idfl >>
    IN  IF idfl \notin DOMAIN fs.base
        THEN [ fs |-> fs1, raised |-> "FileNotFoundError", path |-> None ]
        ELSE IF moveOk
        THEN [ fs |-> [ fs1 EXCEPT
                          !.base = Remove(@, idfl),
                          !.newfs = Put(@, target_path, fs.base[idfl]) ],
               raised |-> "", path |-> target_path ]
        ELSE [ fs |-> fs1, raised |-> "FileOperationError", path |-> None ]

\* move_file: moveOk tells whether shutil.move succeeds; when it raises, the
\* date directory has been created and no file has changed place.
move_file(fs, idfl, dt, moveOk) ==
    IF idfl \notin DOMAIN fs.base
    THEN [ fs |-> fs, raised |-> "FileNotFoundError", path |-> None ]
    ELSE LET fs1 == _ensure_date_directory_exists(fs, dt)
             target_dir == _get_date_directory(dt)
             target_path == IF << target_dir, idfl >> \in DOMAIN fs1.newfs
                            THEN _get_unique_filename(fs1, target_dir, idfl)
                            ELSE << target_dir, idfl >>
         IN  IF moveOk
             THEN [ fs |-> [ fs1 EXCEPT
                               !.base = Remove(@, idfl),
                               !.newfs = Put(@, target_path, fs.base[idfl]) ],
                    raised |-> "", path |-> target_path ]
             ELSE [ fs |-> fs1, raised |-> "FileOperationError", path |-> None ]

\* write_file: writeOk tells whether open/write succeeds
write_file(fs, idfl, data, dt, writeOk) ==
    LET fs1 == _ensure_date_directory_exists(fs, dt)
        target_dir == _get_date_directory(dt)
        target_path == IF << target_dir, idfl >> \in DOMAIN fs1.newfs
                       THEN _get_unique_filename(fs1, target_dir, idfl)
                       ELSE << target_dir, idfl >>
    IN  IF writeOk
        THEN [ fs |-> [ fs1 EXCEPT !.newfs = Put(@, target_path, data) ],
               raised |-> "", path |-> target_path ]
        ELSE [ fs |-> fs1, raised |-> "FileOperationError", path |-> None ]

\* The location rule shared by file_exists, get_file_size and get_file_hash
Located(fs, idfl, ismooved, dt) ==
    IF ismooved THEN << _get_date_directory(dt), idfl >> \in DOMAIN fs.newfs
    ELSE idfl \in DOMAIN fs.base

ContentAt(fs, idfl, ismooved, dt) ==
    IF ismooved THEN fs.newfs[<< _get_date_directory(dt), idfl >>]
    ELSE fs.base[idfl]

file_exists(fs, idfl, ismooved, dt) == Located(fs, idfl, ismooved, dt)

\* hashlib.md5 of the content, taken to be free of collisions
Md5(data) == << "md5", data >>

\* get_file_hash: None when the file is absent or when reading it raises
\* (readOk FALSE), else the digest
get_file_hash(fs, idfl, ismooved, dt, readOk) ==
    IF ~Located(fs, idfl, ismooved, dt) THEN None
    ELSE IF ~readOk THEN None
    ELSE Md5(ContentAt(fs, idfl, ismooved, dt))

\* Mutant of cleanup_empty_directories: every date directory is taken to be
\* empty
cleanup_empty_directories_all(fs, listOk, failing) ==
    IF ~listOk THEN [ fs |-> fs, removed_count |-> 0 ]
    ELSE LET removed == fs.dirs \ failing
         IN  [ fs |-> [ fs EXCEPT !.dirs = @ \ removed ],
               removed_count |-> Cardinality(removed) ]

\* cleanup_empty_directories: each first-level directory of the partitioned
\* root that has no entry is removed with rmdir and counted. An OSError of
\* rmdir (failing: the directories it is raised on) is passed over; listOk
\* FALSE is an error of the listing of the root, caught by the outer
\* handler, which returns 0.
cleanup_empty_directories(fs, listOk, failing) ==
    IF ~listOk THEN [ fs |-> fs, removed_count |-> 0 ]
    ELSE LET empty == { d \in fs.dirs :
                          ~\E q \in DOMAIN fs.newfs : q[1] = d }
             removed == empty \ failing
         IN  [ fs |-> [ fs EXCEPT !.dirs = @ \ removed ],
               removed_count |-> Cardinality(removed) ]

\* st_size of a file: 0 for the empty file
Size(data) == IF data = "" THEN 0 ELSE 1

\* Mutant of get_file_size: the file is looked for in the flat directory
\* whatever ismooved says
get_file_size_flat(fs, idfl, ismooved, dt) ==
    IF idfl \notin DOMAIN fs.base THEN None
    ELSE << Size(fs.base[idfl]) >>

\* get_file_size: None when the file is absent, else its size
get_file_size(fs, idfl, ismooved, dt) ==
    IF ~Located(fs, idfl, ismooved, dt) THEN None
    ELSE << Size(ContentAt(fs, idfl, ismooved, dt)) >>

\* ------------------------------------------------------------------------
\* Migration Orchestrator (migrator.py)
\* ------------------------------------------------------------------------
\* What one call of _migrate_single_file leaves behind and returns
Outcome(cat, fs, result, why, old_hash, new_hash, mark_called, path) ==
    [ catalog |-> cat, fs |-> fs, result |-> result, why |-> why,
      old_hash |-> old_hash, new_hash |-> new_hash,
      mark_called |-> mark_called, path |-> path ]

\* The environment of one per-record transition: whether the two hash reads
\* and shutil.move succeed, how the UPDATE ends, and datetime.now(). A run
\* reads its clock as one instant: no path of the orchestrator reads dtmoove.
Envs ==
    [ srcRead : BOOLEAN, dstRead : BOOLEAN, moveOk : BOOLEAN,
      mark : DbOutcomes, now : { 1 } ]

\* The environments that differ for a row: nothing is consulted when the
\* source is missing, nothing after a move that raised
EnvsFor(fs, file_info) ==
    { e \in Envs :
        /\ ~file_exists(fs, file_info.IDFL, FALSE, file_info.dt)
              => e.srcRead /\ e.moveOk
        /\ ~e.moveOk => e.dstRead /\ e.mark = "ok" }

\* Mutant of _migrate_single_file: the hashes are not compared
_migrate_single_file_nogate(cat, fs, file_info, env) ==
    LET idfl == file_info.IDFL
        dt == file_info.dt
    IN  IF ~file_exists(fs, idfl, FALSE, dt)
        THEN Outcome(cat, fs, FALSE, "not_found", None, None, FALSE, None)
        ELSE
        LET old_hash == get_file_hash(fs, idfl, FALSE, dt, env.srcRead)
            mv == move_file(fs, idfl, dt, env.moveOk)
        IN  IF mv.raised # ""
            THEN Outcome(cat, mv.fs, FALSE, "exception", old_hash, None,
                         FALSE, None)
            ELSE
            LET new_hash == get_file_hash(mv.fs, idfl, TRUE, dt, env.dstRead)
                mk == mark_file_moved(cat, idfl, env.now, env.mark)
            IN  IF mk.raised
                THEN Outcome(mk.catalog, mv.fs, FALSE, "exception",
                             old_hash, new_hash, TRUE, mv.path)
                ELSE IF ~mk.result
                THEN Outcome(mk.catalog, mv.fs, FALSE, "mark_failed",
                             old_hash, new_hash, TRUE, mv.path)
                ELSE Outcome(mk.catalog, mv.fs, TRUE, "moved",
                             old_hash, new_hash, TRUE, mv.path)

\* Mutant of _migrate_single_file: a record whose source is missing is taken
\* to be migrated already and its row is marked
_migrate_single_file_markmissing(cat, fs, file_info, env) ==
    LET idfl == file_info.IDFL
        dt == file_info.dt
    IN  IF ~file_exists(fs, idfl, FALSE, dt)
        THEN Outcome(mark_file_moved(cat, idfl, env.now, "ok").catalog, fs,
                     FALSE, "not_found", None, None, TRUE, None)
        ELSE
        LET old_hash == get_file_hash(fs, idfl, FALSE, dt, env.srcRead)
            mv == move_file(fs, idfl, dt, env.moveOk)
        IN  IF mv.raised # ""
            THEN Outcome(cat, mv.fs, FALSE, "exception", old_hash, None,
                         FALSE, None)
            ELSE
            LET new_hash == get_file_hash(mv.fs, idfl, TRUE, dt, env.dstRead)
            IN  IF old_hash # None /\ new_hash # None /\ old_hash # new_hash
                THEN Outcome(cat, mv.fs, FALSE, "integrity",
                             old_hash, new_hash, FALSE, mv.path)
                ELSE
                LET mk == mark_file_moved(cat, idfl, env.now, env.mark)
                IN  IF mk.raised
                    THEN Outcome(mk.catalog, mv.fs, FALSE, "exception",
                                 old_hash, new_hash, TRUE, mv.path)
                    ELSE IF ~mk.result
                    THEN Outcome(mk.catalog, mv.fs, FALSE, "mark_failed",
                                 old_hash, new_hash, TRUE, mv.path)
                    ELSE Outcome(mk.catalog, mv.fs, TRUE, "moved",
                                 old_hash, new_hash, TRUE, mv.path)

\* Mutant of _migrate_single_file: a failed catalog update puts the file back
\* where it was
_migrate_single_file_rollback(cat, fs, file_info, env) ==
    LET idfl == file_info.IDFL
        dt == file_info.dt
    IN  IF ~file_exists(fs, idfl, FALSE, dt)
        THEN Outcome(cat, fs, FALSE, "not_found", None, None, FALSE, None)
        ELSE
        LET old_hash == get_file_hash(fs, idfl, FALSE, dt, env.srcRead)
            mv == move_file(fs, idfl, dt, env.moveOk)
        IN  IF mv.raised # ""
            THEN Outcome(cat, mv.fs, FALSE, "exception", old_hash, None,
                         FALSE, None)
            ELSE
            LET new_hash == get_file_hash(mv.fs, idfl, TRUE, dt, env.dstRead)
            IN  IF old_hash # None /\ new_hash # None /\ old_hash # new_hash
                THEN Outcome(cat, mv.fs, FALSE, "integrity",
                             old_hash, new_hash, FALSE, mv.path)
                ELSE
                LET mk == mark_file_moved(cat, idfl, env.now, env.mark)
                IN  IF mk.raised
                    THEN Outcome(mk.catalog, fs, FALSE, "exception",
                                 old_hash, new_hash, TRUE, mv.path)
                    ELSE IF ~mk.result
                    THEN Outcome(mk.catalog, fs, FALSE, "mark_failed",
                                 old_hash, new_hash, TRUE, mv.path)
                    ELSE Outcome(mk.catalog, mv.fs, TRUE, "moved",
                                 old_hash, new_hash, TRUE, mv.path)

\* Mutant of _migrate_single_file: a hash that could not be read counts as
\* an integrity failure
_migrate_single_file_strict(cat, fs, file_info, env) ==
    LET idfl == file_info.IDFL
        dt == file_info.dt
    IN  IF ~file_exists(fs, idfl, FALSE, dt)
        THEN Outcome(cat, fs, FALSE, "not_found", None, None, FALSE, None)
        ELSE
        LET old_hash == get_file_hash(fs, idfl, FALSE, dt, env.srcRead)
            mv == move_file(fs, idfl, dt, env.moveOk)
        IN  IF mv.raised # ""
            THEN Outcome(cat, mv.fs, FALSE, "exception", old_hash, None,
                         FALSE, None)
            ELSE
            LET new_hash == get_file_hash(mv.fs, idfl, TRUE, dt, env.dstRead)
            IN  IF old_hash = None \/ new_hash = None \/ old_hash # new_hash
                THEN Outcome(cat, mv.fs, FALSE, "integrity",
                             old_hash, new_hash, FALSE, mv.path)
                ELSE
                LET mk == mark_file_moved(cat, idfl, env.now, env.mark)
                IN  IF mk.raised
                    THEN Outcome(mk.catalog, mv.fs, FALSE, "exception",
                                 old_hash, new_hash, TRUE, mv.path)
                    ELSE IF ~mk.result
                    THEN Outcome(mk.catalog, mv.fs, FALSE, "mark_failed",
                                 old_hash, new_hash, TRUE, mv.path)
                    ELSE Outcome(mk.catalog, mv.fs, TRUE, "moved",
                                 old_hash, new_hash, TRUE, mv.path)

\* Mutant of _migrate_single_file: a record whose source is gone but
\* whose file is at its partitioned path is marked moved
_migrate_single_file_healing(cat, fs, file_info, env) ==
    LET idfl == file_info.IDFL
        dt == file_info.dt
    IN  IF ~file_exists(fs, idfl, FALSE, dt)
        THEN IF file_exists(fs, idfl, TRUE, dt)
             THEN Outcome(UpdateMoved(cat, idfl, env.now), fs, TRUE, "moved",
                          None, None, TRUE, None)
             ELSE Outcome(cat, fs, FALSE, "not_found", None, None, FALSE, None)
        ELSE
        LET old_hash == get_file_hash(fs, idfl, FALSE, dt, env.srcRead)
            mv == move_file(fs, idfl, dt, env.moveOk)
        IN  IF mv.raised # ""
            THEN Outcome(cat, mv.fs, FALSE, "exception", old_hash, None,
                         FALSE, None)
            ELSE
            LET new_hash == get_file_hash(mv.fs, idfl, TRUE, dt, env.dstRead)
            IN  IF old_hash # None /\ new_hash # None /\ old_hash # new_hash
                THEN Outcome(cat, mv.fs, FALSE, "integrity",
                             old_hash, new_hash, FALSE, mv.path)
                ELSE
                LET mk == mark_file_moved(cat, idfl, env.now, env.mark)
                IN  IF mk.raised
                    THEN Outcome(mk.catalog, mv.fs, FALSE, "exception",
                                 old_hash, new_hash, TRUE, mv.path)
                    ELSE IF ~mk.result
                    THEN Outcome(mk.catalog, mv.fs, FALSE, "mark_failed",
                                 old_hash, new_hash, TRUE, mv.path)
                    ELSE Outcome(mk.catalog, mv.fs, TRUE, "moved",
                                 old_hash, new_hash, TRUE, mv.path)

\* _migrate_single_file: every exception of the body is caught and turned
\* into the return value False
_migrate_single_file(cat, fs, file_info, env) ==
    LET idfl == file_info.IDFL
        dt == file_info.dt
    IN  IF ~file_exists(fs, idfl, FALSE, dt)
        THEN Outcome(cat, fs, FALSE, "not_found", None, None, FALSE, None)
        ELSE
        LET old_hash == get_file_hash(fs, idfl, FALSE, dt, env.srcRead)
            mv == move_file(fs, idfl, dt, env.moveOk)
        IN  IF mv.raised # ""
            THEN Outcome(cat, mv.fs, FALSE, "exception", old_hash, None,
                         FALSE, None)
            ELSE
            LET new_hash == get_file_hash(mv.fs, idfl, TRUE, dt, env.dstRead)
            IN  IF old_hash # None /\ new_hash # None /\ old_hash # new_hash
                THEN Outcome(cat, mv.fs, FALSE, "integrity",
                             old_hash, new_hash, FALSE, mv.path)
                ELSE
                LET mk == mark_file_moved(cat, idfl, env.now, env.mark)
                IN  IF mk.raised
                    THEN Outcome(mk.catalog, mv.fs, FALSE, "exception",
                                 old_hash, new_hash, TRUE, mv.path)
                    ELSE IF ~mk.result
                    THEN Outcome(mk.catalog, mv.fs, FALSE, "mark_failed",
                                 old_hash, new_hash, TRUE, mv.path)
                    ELSE Outcome(mk.catalog, mv.fs, TRUE, "moved",
                                 old_hash, new_hash, TRUE, mv.path)

\* Whether verify_migration finds the file of a row in order: there at its
\* partitioned path, with a size other than None and 0
VerifyGood(fs, f) ==
    /\ file_exists(fs, f.IDFL, TRUE, f.dt)
    /\ get_file_size(fs, f.IDFL, TRUE, f.dt) \notin { None, << 0 >> }

\* The detail lines appended for the rows checked, in order: one per row
\* that is not found or has no size, none for a row in order
RECURSIVE VerifyDetails(_, _)
VerifyDetails(fs, checked) ==
    IF checked = << >> THEN << >>
    ELSE LET f == Head(checked)
             line == IF ~file_exists(fs, f.IDFL, TRUE, f.dt)
                     THEN << << "not_found", f.IDFL >> >>
                     ELSE IF ~VerifyGood(fs, f)
                     THEN << << "zero_size", f.IDFL >> >>
                     ELSE << >>
         IN  line \o VerifyDetails(fs, Tail(checked))

\* Mutant of verify_rows: a file of size 0 is counted as an error without a
\* detail line
verify_rows_nodetail(fs, rows, sample_size) ==
    LET moved_files == SelectSeq(rows, LAMBDA f : f.ismooved)
        checked == Limit(moved_files, sample_size)
        good == { i \in 1..Len(checked) : VerifyGood(fs, checked[i]) }
    IN  IF moved_files = << >>
        THEN [ raised |-> "", verified |-> 0, errors |-> 0,
               total_checked |-> 0, details |-> << >> ]
        ELSE [ raised |-> "", verified |-> Cardinality(good),
               errors |-> Len(checked) - Cardinality(good),
               total_checked |-> Len(checked),
               details |-> SelectSeq(VerifyDetails(fs, checked),
                                     LAMBDA d : d[1] = "not_found") ]

\* verify_migration from the rows get_files_to_move returned: those with
\* ismooved set are kept and cut to sample_size; each is looked up at its
\* partitioned path and counted as verified when it is there with a size
\* other than 0, else as an error with one detail line
verify_rows(fs, rows, sample_size) ==
    LET moved_files == SelectSeq(rows, LAMBDA f : f.ismooved)
        checked == Limit(moved_files, sample_size)
        good == { i \in 1..Len(checked) : VerifyGood(fs, checked[i]) }
    IN  IF moved_files = << >>
        THEN [ raised |-> "", verified |-> 0, errors |-> 0,
               total_checked |-> 0, details |-> << >> ]
        ELSE [ raised |-> "", verified |-> Cardinality(good),
               errors |-> Len(checked) - Cardinality(good),
               total_checked |-> Len(checked),
               details |-> VerifyDetails(fs, checked) ]

\* verify_migration(sample_size): the rows come from get_files_to_move; a
\* failed fetch raises MigrationError.
verify_migration(cat, fs, sample_size, fetch) ==
    IF fetch # "ok"
    THEN [ raised |-> "MigrationError", verified |-> 0, errors |-> 0,
           total_checked |-> 0, details |-> << >> ]
    ELSE verify_rows(fs, get_files_to_move(cat, sample_size), sample_size)

\* ------------------------------------------------------------------------
\* State
\* ------------------------------------------------------------------------
VARIABLES
    catalog,      \* the table repl_AV_ATF: id -> [dt, ismooved, dtmoove]
    fs,           \* the two directory trees: [base, dirs, newfs]
    pc,           \* where the Migrator is: "idle", "all", "batch", "range", "done"
    files,        \* rows fetched and not yet attempted
    loc,          \* the local counters of migrate_batch
    stats,        \* MigrationStats of the Migrator instance
    run,          \* the migrate_all call in progress: [active, max_files, batch_size]
    last,         \* the last call made and what it returned
    fetched,      \* ids of the last fetch, in order
    prevFetched,  \* ids fetched by the batch a stop cut short
    moveCount,    \* id -> number of times base/<id> was moved away
    orig          \* the flat directory before any run

vars == << catalog, fs, pc, files, loc, stats, run, last, fetched,
           prevFetched, moveCount, orig >>

ZeroStats ==
    [ total_files |-> 0, processed_files |-> 0, successful_files |-> 0,
      failed_files |-> 0, batch_count |-> 0, errors |-> << >> ]

ZeroLoc == [ processed |-> 0, successful |-> 0, failed |-> 0 ]

NoRun == [ active |-> FALSE, max_files |-> 0, batch_size |-> 0 ]

NoCall == [ op |-> "none" ]

\* Partial functions from a set of keys to a set of values
Partial(K, V) == UNION { [ D -> V ] : D \in SUBSET K }

Min(a, b) == IF a < b THEN a ELSE b

Unmoved(cat) == { id \in DOMAIN cat : ~cat[id].ismooved }

IdsOf(rows) == [ i \in 1..Len(rows) |-> rows[i].IDFL ]

Range(seq) == { seq[i] : i \in 1..Len(seq) }

\* The partitioned trees a run may find: empty, or day 0 already holding a
\* file named "a" (a duplicate, or one put there by write_file), empty or
\* with the content of the record's own file
PreTrees ==
    { << >> } \cup
    { [ p \in { << 0, <<"a">> >> } |-> c ] : c \in { "", SourceContent(<<"a">>) } }

\* The registered datetimes tried for each record: "a" late on day 0 or on
\* day 1, "a_1" on day 0 before or with "a", "b.t" on day 1
InitDates(id) ==
    CASE id = <<"a">> -> { << 0, 1 >>, << 1, 0 >> }
      [] id = <<"a", "_", "1">> -> { << 0, 0 >>, << 0, 1 >> }
      [] OTHER -> { << 1, 0 >> }

\* Rows are created by insert_new_file with ismooved = 0 and dtmoove NULL;
\* the flat directory holds the file of every record.
Init ==
    /\ catalog \in [ Ids -> [ dt : DateTimes, ismooved : { FALSE },
                              dtmoove : { None } ] ]
    /\ \A id \in Ids : catalog[id].dt \in InitDates(id)
    /\ \E n \in PreTrees :
          fs = [ base |-> [ id \in Ids |-> SourceContent(id) ],
                 dirs |-> { p[1] : p \in DOMAIN n }, newfs |-> n ]
    /\ orig = [ id \in Ids |-> SourceContent(id) ]
    /\ pc = "idle"
    /\ files = << >>
    /\ loc = ZeroLoc
    /\ stats = ZeroStats
    /\ run = NoRun
    /\ last = NoCall
    /\ fetched = << >>
    /\ prevFetched = {}
    /\ moveCount = [ id \in Ids |-> 0 ]

\* ------------------------------------------------------------------------
\* Actions
\* ------------------------------------------------------------------------
\* Mutant of MigrateBatch: a failed fetch counts the whole batch as failed
MigrateBatch_countfailed(batch_size, fetch) ==
    /\ pc = "idle"
    /\ stats' = [ stats EXCEPT
                    !.batch_count = @ + 1,
                    !.failed_files = @ + (IF fetch # "ok" THEN batch_size ELSE 0) ]
    /\ loc' = ZeroLoc
    /\ IF fetch # "ok"
       THEN /\ pc' = "done"
            /\ files' = << >>
            /\ fetched' = << >>
            /\ last' = [ op |-> "migrate_batch", raised |-> "MigrationError" ]
            /\ prevFetched' = {}
       ELSE LET rows == get_files_to_move(catalog, batch_size)
            IN  /\ files' = rows
                /\ fetched' = IdsOf(rows)
                /\ pc' = IF rows = << >> THEN "done" ELSE "batch"
                /\ last' = [ op |-> "migrate_batch", raised |-> "",
                             batch_size |-> batch_size ]
                /\ prevFetched' = prevFetched
    /\ UNCHANGED << catalog, fs, run, moveCount, orig >>

\* migrate_batch(batch_size) up to the for loop: the batch is counted, the
\* rows are fetched; a failed fetch raises MigrationError, an empty one
\* returns (0, 0, 0).
MigrateBatch(batch_size, fetch) ==
    /\ pc = "idle"
    /\ stats' = [ stats EXCEPT !.batch_count = @ + 1 ]
    /\ loc' = ZeroLoc
    /\ IF fetch # "ok"
       THEN /\ pc' = "done"
            /\ files' = << >>
            /\ fetched' = << >>
            /\ last' = [ op |-> "migrate_batch", raised |-> "MigrationError" ]
            /\ prevFetched' = {}
       ELSE LET rows == get_files_to_move(catalog, batch_size)
            IN  /\ files' = rows
                /\ fetched' = IdsOf(rows)
                /\ pc' = IF rows = << >> THEN "done" ELSE "batch"
                /\ last' = [ op |-> "migrate_batch", raised |-> "",
                             batch_size |-> batch_size ]
                /\ prevFetched' = prevFetched
    /\ UNCHANGED << catalog, fs, run, moveCount, orig >>

\* Mutant of MigrateSingleFile: a record that fails ends the for loop
MigrateSingleFile_abort(env) ==
    /\ pc \in { "batch", "range" }
    /\ files # << >>
    /\ env \in EnvsFor(fs, Head(files))
    /\ LET file_info == Head(files)
           r == _migrate_single_file(catalog, fs, file_info, env)
       IN  /\ catalog' = r.catalog
           /\ fs' = r.fs
           /\ files' = IF r.result THEN Tail(files) ELSE << >>
           /\ last' = [ op |-> "_migrate_single_file", id |-> file_info.IDFL,
                        result |-> r.result, why |-> r.why,
                        old_hash |-> r.old_hash, new_hash |-> r.new_hash,
                        mark_called |-> r.mark_called, path |-> r.path ]
           /\ moveCount' = IF r.path # None
                           THEN [ moveCount EXCEPT ![file_info.IDFL] = @ + 1 ]
                           ELSE moveCount
           /\ IF pc = "batch"
              THEN /\ loc' = [ processed |-> loc.processed + 1,
                               successful |-> loc.successful
                                              + (IF r.result THEN 1 ELSE 0),
                               failed |-> loc.failed
                                          + (IF r.result THEN 0 ELSE 1) ]
                   /\ stats' = stats
              ELSE /\ stats' = [ stats EXCEPT
                        !.processed_files = @ + 1,
                        !.successful_files = @ + (IF r.result THEN 1 ELSE 0),
                        !.failed_files = @ + (IF r.result THEN 0 ELSE 1) ]
                   /\ loc' = loc
    /\ prevFetched' = {}
    /\ UNCHANGED << pc, run, fetched, orig >>

\* Mutant of MigrateSingleFile: an exception of the body leaves
\* _migrate_single_file and is handled by the caller, which counts a
\* failure and no processed record
MigrateSingleFile_raise(env) ==
    /\ pc \in { "batch", "range" }
    /\ files # << >>
    /\ env \in EnvsFor(fs, Head(files))
    /\ LET file_info == Head(files)
           r == _migrate_single_file(catalog, fs, file_info, env)
       IN  /\ catalog' = r.catalog
           /\ fs' = r.fs
           /\ files' = Tail(files)
           /\ last' = [ op |-> "_migrate_single_file", id |-> file_info.IDFL,
                        result |-> r.result, why |-> r.why,
                        old_hash |-> r.old_hash, new_hash |-> r.new_hash,
                        mark_called |-> r.mark_called, path |-> r.path ]
           /\ moveCount' = IF r.path # None
                           THEN [ moveCount EXCEPT ![file_info.IDFL] = @ + 1 ]
                           ELSE moveCount
           /\ IF pc = "batch"
              THEN /\ loc' = [ processed |-> loc.processed
                                              + (IF r.why = "exception"
                                                 THEN 0 ELSE 1),
                               successful |-> loc.successful
                                              + (IF r.result THEN 1 ELSE 0),
                               failed |-> loc.failed
                                          + (IF r.result THEN 0 ELSE 1) ]
                   /\ stats' = stats
              ELSE /\ stats' = [ stats EXCEPT
                        !.processed_files = @ + (IF r.why = "exception"
                                                 THEN 0 ELSE 1),
                        !.successful_files = @ + (IF r.result THEN 1 ELSE 0),
                        !.failed_files = @ + (IF r.result THEN 0 ELSE 1) ]
                   /\ loc' = loc
    /\ prevFetched' = {}
    /\ UNCHANGED << pc, run, fetched, orig >>

\* One iteration of the for loop of migrate_batch or migrate_by_date_range:
\* _migrate_single_file on the next row, then the counters.
MigrateSingleFile(env) ==
    /\ pc \in { "batch", "range" }
    /\ files # << >>
    /\ env \in EnvsFor(fs, Head(files))
    /\ LET file_info == Head(files)
           r == _migrate_single_file(catalog, fs, file_info, env)
       IN  /\ catalog' = r.catalog
           /\ fs' = r.fs
           /\ files' = Tail(files)
           /\ last' = [ op |-> "_migrate_single_file", id |-> file_info.IDFL,
                        result |-> r.result, why |-> r.why,
                        old_hash |-> r.old_hash, new_hash |-> r.new_hash,
                        mark_called |-> r.mark_called, path |-> r.path ]
           /\ moveCount' = IF r.path # None
                           THEN [ moveCount EXCEPT ![file_info.IDFL] = @ + 1 ]
                           ELSE moveCount
           /\ IF pc = "batch"
              THEN /\ loc' = [ processed |-> loc.processed + 1,
                               successful |-> loc.successful
                                              + (IF r.result THEN 1 ELSE 0),
                               failed |-> loc.failed
                                          + (IF r.result THEN 0 ELSE 1) ]
                   /\ stats' = stats
              ELSE /\ stats' = [ stats EXCEPT
                        !.processed_files = @ + 1,
                        !.successful_files = @ + (IF r.result THEN 1 ELSE 0),
                        !.failed_files = @ + (IF r.result THEN 0 ELSE 1) ]
                   /\ loc' = loc
    /\ prevFetched' = {}
    /\ UNCHANGED << pc, run, fetched, orig >>

\* Mutant of BatchEnd: the number of unmoved rows is read again and becomes
\* the total of the run
BatchEnd_recount ==
    /\ pc = "batch"
    /\ files = << >>
    /\ stats' = [ stats EXCEPT
                    !.total_files = Cardinality(Unmoved(catalog)),
                    !.processed_files = @ + loc.processed,
                    !.successful_files = @ + loc.successful,
                    !.failed_files = @ + loc.failed ]
    /\ pc' = IF run.active THEN "all" ELSE "done"
    /\ last' = [ op |-> "migrate_batch_end", processed |-> loc.processed,
                 successful |-> loc.successful, failed |-> loc.failed ]
    /\ UNCHANGED << catalog, fs, files, loc, run, fetched, prevFetched,
                    moveCount, orig >>

\* The end of migrate_batch: the local counters go into the statistics and
\* the call returns, to migrate_all when that is the caller.
BatchEnd ==
    /\ pc = "batch"
    /\ files = << >>
    /\ stats' = [ stats EXCEPT
                    !.processed_files = @ + loc.processed,
                    !.successful_files = @ + loc.successful,
                    !.failed_files = @ + loc.failed ]
    /\ pc' = IF run.active THEN "all" ELSE "done"
    /\ last' = [ op |-> "migrate_batch_end", processed |-> loc.processed,
                 successful |-> loc.successful, failed |-> loc.failed ]
    /\ UNCHANGED << catalog, fs, files, loc, run, fetched, prevFetched,
                    moveCount, orig >>

\* migrate_all(max_files) up to the while loop: initialize() reads the number
\* of unmoved rows; max_files 0 stands for None.
MigrateAll(max_files, batch_size, init) ==
    /\ pc = "idle"
    /\ IF init # "ok"
       THEN /\ last' = [ op |-> "migrate_all", raised |-> "MigrationError" ]
            /\ pc' = "done"
            /\ UNCHANGED << run, stats >>
       ELSE /\ stats' = [ stats EXCEPT
                            !.total_files = Cardinality(Unmoved(catalog)) ]
            /\ run' = [ active |-> TRUE, max_files |-> max_files,
                        batch_size |-> batch_size ]
            /\ pc' = "all"
            /\ last' = [ op |-> "migrate_all", raised |-> "" ]
    /\ prevFetched' = {}
    /\ UNCHANGED << catalog, fs, files, loc, fetched, moveCount, orig >>

\* Mutant of AllLoop: the batch size is not cut to what the cap leaves
AllLoop_nocap(fetch) ==
    /\ pc = "all"
    /\ IF run.max_files # 0 /\ stats.processed_files >= run.max_files
       THEN /\ pc' = "done"
            /\ run' = NoRun
            /\ last' = [ op |-> "migrate_all_end", raised |-> "" ]
            /\ UNCHANGED << files, loc, stats, fetched, prevFetched >>
       ELSE
       LET batch_size == run.batch_size
       IN  /\ stats.batch_count < MaxBatches
           /\ stats' = [ stats EXCEPT !.batch_count = @ + 1 ]
           /\ loc' = ZeroLoc
           /\ IF fetch # "ok"
              THEN /\ pc' = "done"
                   /\ run' = NoRun
                   /\ files' = << >>
                   /\ last' = [ op |-> "migrate_all_end",
                                raised |-> "MigrationError" ]
                   /\ UNCHANGED << fetched, prevFetched >>
              ELSE LET rows == get_files_to_move(catalog, batch_size)
                   IN  /\ files' = rows
                       /\ fetched' = IdsOf(rows)
                       /\ pc' = IF rows = << >> THEN "done" ELSE "batch"
                       /\ run' = IF rows = << >> THEN NoRun ELSE run
                       /\ last' = IF rows = << >>
                                  THEN [ op |-> "migrate_all_end", raised |-> "" ]
                                  ELSE [ op |-> "migrate_batch", raised |-> "",
                                         batch_size |-> batch_size ]
                       /\ prevFetched' = prevFetched
    /\ UNCHANGED << catalog, fs, moveCount, orig >>

\* One turn of the while loop of migrate_all, up to the for loop of the
\* migrate_batch it calls.
AllLoop(fetch) ==
    /\ pc = "all"
    /\ IF run.max_files # 0 /\ stats.processed_files >= run.max_files
       THEN /\ pc' = "done"
            /\ run' = NoRun
            /\ last' = [ op |-> "migrate_all_end", raised |-> "" ]
            /\ UNCHANGED << files, loc, stats, fetched, prevFetched >>
       ELSE
       LET batch_size ==
               IF run.max_files # 0
               THEN Min(run.batch_size, run.max_files - stats.processed_files)
               ELSE run.batch_size
       IN  /\ stats.batch_count < MaxBatches
           /\ stats' = [ stats EXCEPT !.batch_count = @ + 1 ]
           /\ loc' = ZeroLoc
           /\ IF fetch # "ok"
              THEN /\ pc' = "done"
                   /\ run' = NoRun
                   /\ files' = << >>
                   /\ last' = [ op |-> "migrate_all_end",
                                raised |-> "MigrationError" ]
                   /\ UNCHANGED << fetched, prevFetched >>
              ELSE LET rows == get_files_to_move(catalog, batch_size)
                   IN  /\ files' = rows
                       /\ fetched' = IdsOf(rows)
                       /\ pc' = IF rows = << >> THEN "done" ELSE "batch"
                       /\ run' = IF rows = << >> THEN NoRun ELSE run
                       /\ last' = IF rows = << >>
                                  THEN [ op |-> "migrate_all_end", raised |-> "" ]
                                  ELSE [ op |-> "migrate_batch", raised |-> "",
                                         batch_size |-> batch_size ]
                       /\ prevFetched' = prevFetched
    /\ UNCHANGED << catalog, fs, moveCount, orig >>

\* migrate_by_date_range(start_date, end_date) up to the for loop
MigrateByDateRange(start_date, end_date, init) ==
    /\ pc = "idle"
    /\ IF init # "ok"
       THEN /\ last' = [ op |-> "migrate_by_date_range",
                         raised |-> "MigrationError" ]
            /\ pc' = "done"
            /\ UNCHANGED << files, stats, fetched >>
       ELSE LET rows == get_files_by_date_range(catalog, start_date, end_date)
                unmoved_files == SelectSeq(rows, LAMBDA f : ~f.ismooved)
            IN  /\ stats' = [ stats EXCEPT !.total_files = Len(unmoved_files) ]
                /\ files' = unmoved_files
                /\ fetched' = IdsOf(unmoved_files)
                /\ pc' = IF unmoved_files = << >> THEN "done" ELSE "range"
                /\ last' = [ op |-> "migrate_by_date_range", raised |-> "",
                             start_date |-> start_date, end_date |-> end_date ]
    /\ prevFetched' = {}
    /\ UNCHANGED << catalog, fs, loc, run, moveCount, orig >>

\* The end of migrate_by_date_range
RangeEnd ==
    /\ pc = "range"
    /\ files = << >>
    /\ pc' = "done"
    /\ last' = [ op |-> "migrate_by_date_range_end", raised |-> "" ]
    /\ UNCHANGED << catalog, fs, files, loc, stats, run, fetched,
                    prevFetched, moveCount, orig >>

\* The process ends, after its command or cut short between two records, and
\* a new one starts (main.py builds one Migrator per command): what was in
\* memory is gone, the catalog and the files stay.
Restart ==
    /\ pc # "idle"
    /\ pc' = "idle"
    /\ files' = << >>
    /\ loc' = ZeroLoc
    /\ stats' = ZeroStats
    /\ run' = NoRun
    /\ last' = [ op |-> "restart" ]
    /\ prevFetched' = IF pc = "batch" THEN Range(fetched) ELSE {}
    /\ fetched' = << >>
    /\ UNCHANGED << catalog, fs, moveCount, orig >>

Next ==
    \/ \E n \in 1..MaxBatchSize, f \in { "ok", "error" } : MigrateBatch(n, f)
    \/ \E env \in Envs : MigrateSingleFile(env)
    \/ BatchEnd
    \/ \E m \in 0..MaxBatchSize, n \in 1..MaxBatchSize, i \in { "ok", "error" } :
          MigrateAll(m, n, i)
    \/ \E f \in { "ok", "error" } : AllLoop(f)
    \/ \E s \in DateTimes, e \in DateTimes, i \in { "ok", "error" } :
          MigrateByDateRange(s, e, i)
    \/ RangeEnd
    \/ Restart

Spec == Init /\ [][Next]_vars

\* ------------------------------------------------------------------------
\* Direct calls of the Catalog Store
\* ------------------------------------------------------------------------
\* An id no row has
UnknownId == <<"t">>

\* Database.mark_file_moved(idfl, dtmoove), called on any id at any time
DbMarkFileMoved(idfl, dtmoove, outcome) ==
    LET mk == mark_file_moved(catalog, idfl, dtmoove, outcome)
    IN  /\ catalog' = mk.catalog
        /\ last' = [ op |-> "mark_file_moved", id |-> idfl, t |-> dtmoove,
                     raised |-> mk.raised, result |-> mk.result,
                     transitioned |-> mk.catalog # catalog ]
        /\ UNCHANGED << fs, pc, files, loc, stats, run, fetched, prevFetched,
                        moveCount, orig >>

\* Database.get_files_to_move(batch_size): the rows, or the
\* DatabaseQueryError that is logged and raised again
DbGetFilesToMove(batch_size, outcome) ==
    /\ last' = IF outcome = "ok"
               THEN [ op |-> "get_files_to_move", batch_size |-> batch_size,
                      raised |-> FALSE,
                      rows |-> get_files_to_move(catalog, batch_size) ]
               ELSE [ op |-> "get_files_to_move", batch_size |-> batch_size,
                      raised |-> TRUE, rows |-> << >> ]
    /\ UNCHANGED << catalog, fs, pc, files, loc, stats, run, fetched,
                    prevFetched, moveCount, orig >>

NextDb ==
    \/ \E idfl \in Ids \cup { UnknownId }, t \in Times, o \in DbOutcomes :
          DbMarkFileMoved(idfl, t, o)
    \/ \E n \in 1..(MaxBatchSize + 1), o \in { "ok", "query_error" } :
          DbGetFilesToMove(n, o)

SpecDb == Init /\ [][NextDb]_vars

\* ------------------------------------------------------------------------
\* Direct calls of the Placement Engine
\* ------------------------------------------------------------------------
\* The trees start as in Init, under one catalog
InitFs ==
    /\ Init
    /\ catalog[<<"a">>].dt = << 0, 1 >>
    /\ catalog[<<"a", "_", "1">>].dt = << 0, 1 >>

\* FileOps.move_file(idfl, dt)
FsMoveFile(idfl, dt, moveOk) ==
    /\ Cardinality(DOMAIN fs.newfs) < MaxFiles
    /\ LET mv == move_file(fs, idfl, dt, moveOk)
       IN  /\ fs' = mv.fs
           /\ last' = [ op |-> "move_file", id |-> idfl, dt |-> dt,
                        raised |-> mv.raised, path |-> mv.path ]
           /\ moveCount' = IF mv.path # None
                           THEN [ moveCount EXCEPT ![idfl] = @ + 1 ]
                           ELSE moveCount
    /\ UNCHANGED << catalog, pc, files, loc, stats, run, fetched, prevFetched,
                    orig >>

\* FileOps.write_file(idfl, filename, data, dt)
FsWriteFile(idfl, data, dt, writeOk) ==
    /\ Cardinality(DOMAIN fs.newfs) < MaxFiles
    /\ LET wr == write_file(fs, idfl, data, dt, writeOk)
       IN  /\ fs' = wr.fs
           /\ last' = [ op |-> "write_file", id |-> idfl, dt |-> dt,
                        raised |-> wr.raised, path |-> wr.path ]
    /\ UNCHANGED << catalog, pc, files, loc, stats, run, fetched, prevFetched,
                    moveCount, orig >>

\* FileOps._get_unique_filename(directory, filename) on an existing directory
FsUniqueFilename(directory, filename) ==
    /\ directory \in fs.dirs
    /\ last' = [ op |-> "_get_unique_filename", directory |-> directory,
                 filename |-> filename,
                 path |-> _get_unique_filename(fs, directory, filename) ]
    /\ UNCHANGED << catalog, fs, pc, files, loc, stats, run, fetched,
                    prevFetched, moveCount, orig >>

\* FileOps.cleanup_empty_directories()
FsCleanupEmptyDirectories(listOk, failing) ==
    /\ LET c == cleanup_empty_directories(fs, listOk, failing)
       IN  /\ fs' = c.fs
           /\ last' = [ op |-> "cleanup_empty_directories",
                        removed_count |-> c.removed_count,
                        oserror |-> (~listOk \/ failing \cap fs.dirs # {}) ]
    /\ UNCHANGED << catalog, pc, files, loc, stats, run, fetched, prevFetched,
                    moveCount, orig >>

NextFs ==
    \/ \E idfl \in Ids, dt \in DateTimes, ok \in BOOLEAN :
          FsMoveFile(idfl, dt, ok)
    \/ \E ok \in BOOLEAN, failing \in SUBSET Days :
          FsCleanupEmptyDirectories(ok, failing)
    \/ \E idfl \in WriteNames, dt \in DateTimes, ok \in BOOLEAN :
          FsWriteFile(idfl, "w", dt, ok)
    \/ \E d \in Days, n \in Names : FsUniqueFilename(d, n)

SpecFs == InitFs /\ [][NextFs]_vars

\* ------------------------------------------------------------------------
\* The migrate command (main.py), run to its end
\* ------------------------------------------------------------------------
\* The statistics of a run that goes on without end grow without bound. A
\* counter past its bound is folded onto the bound: no cap is above
\* MaxBatchSize, so the comparison with the cap, the batch size and the test
\* failed_files > 0 are what they are with the exact counter.
Folded(n, bound) == IF n > bound THEN bound ELSE n

\* The tables and trees an earlier run has left when it migrated every record
AllMoved(cat0) ==
    /\ catalog = [ id \in Ids |->
                     [ cat0[id] EXCEPT !.ismooved = TRUE, !.dtmoove = << 1 >> ] ]
    /\ fs = [ base |-> << >>,
              dirs |-> { strftime(cat0[id].dt) : id \in Ids },
              newfs |-> [ q \in { << strftime(cat0[id].dt), id >> : id \in Ids }
                            |-> SourceContent(q[2]) ] ]
    /\ moveCount = [ id \in Ids |-> 1 ]

\* The command starts on a catalog no run has touched, or on one an earlier
\* run has migrated completely
InitCli ==
    /\ orig = [ id \in Ids |-> SourceContent(id) ]
    /\ pc = "idle"
    /\ files = << >>
    /\ loc = ZeroLoc
    /\ stats = ZeroStats
    /\ run = NoRun
    /\ last = NoCall
    /\ fetched = << >>
    /\ prevFetched = {}
    /\ \E cat0 \in [ Ids -> [ dt : DateTimes, ismooved : { FALSE },
                               dtmoove : { None } ] ] :
          /\ \A id \in Ids : cat0[id].dt \in InitDates(id)
          /\ \/ /\ catalog = cat0
                /\ \E n \in PreTrees :
                      fs = [ base |-> [ id \in Ids |-> SourceContent(id) ],
                             dirs |-> { q[1] : q \in DOMAIN n }, newfs |-> n ]
                /\ moveCount = [ id \in Ids |-> 0 ]
             \/ AllMoved(cat0)

\* What cmd_migrate returns
CmdReturn(exit_code, initialized, raised) ==
    /\ pc' = "exit"
    /\ last' = [ op |-> "cmd_migrate", exit_code |-> exit_code,
                 initialized |-> initialized, raised |-> raised ]

\* cmd_migrate up to the while loop of migrate_all: initialize(), the status,
\* the early return when nothing is left, then migrate_all(max_files), which
\* initializes again; max_files 0 stands for no --max-files.
CmdMigrate(max_files, batch_size, init, status, init_all) ==
    /\ pc = "idle"
    /\ IF init # "ok"
       THEN /\ CmdReturn(1, FALSE, "")
            /\ UNCHANGED << catalog, fs, files, loc, stats, run, fetched,
                            prevFetched, moveCount, orig >>
       ELSE IF status # "ok"
       THEN /\ CmdReturn(1, TRUE, "MigrationError")
            /\ stats' = [ stats EXCEPT
                            !.total_files = Cardinality(Unmoved(catalog)) ]
            /\ UNCHANGED << catalog, fs, files, loc, run, fetched,
                            prevFetched, moveCount, orig >>
       ELSE IF Cardinality(Unmoved(catalog)) = 0
       THEN /\ CmdReturn(0, TRUE, "")
            /\ stats' = [ stats EXCEPT
                            !.total_files = Cardinality(Unmoved(catalog)) ]
            /\ UNCHANGED << catalog, fs, files, loc, run, fetched,
                            prevFetched, moveCount, orig >>
       ELSE MigrateAll(max_files, batch_size, init_all)

\* One turn of the while loop of migrate_all, as AllLoop, in a run that is
\* followed however many batches it takes
CliAllLoop(fetch) ==
    /\ pc = "all"
    /\ IF run.max_files # 0 /\ stats.processed_files >= run.max_files
       THEN /\ pc' = "done"
            /\ run' = NoRun
            /\ last' = [ op |-> "migrate_all_end", raised |-> "" ]
            /\ UNCHANGED << files, loc, stats, fetched, prevFetched >>
       ELSE
       LET batch_size ==
               IF run.max_files # 0
               THEN Min(run.batch_size, run.max_files - stats.processed_files)
               ELSE run.batch_size
       IN  /\ stats' = [ stats EXCEPT !.batch_count = Folded(@ + 1, MaxBatches) ]
           /\ loc' = ZeroLoc
           /\ IF fetch # "ok"
              THEN /\ pc' = "done"
                   /\ run' = NoRun
                   /\ files' = << >>
                   /\ last' = [ op |-> "migrate_all_end",
                                raised |-> "MigrationError" ]
                   /\ UNCHANGED << fetched, prevFetched >>
              ELSE LET rows == get_files_to_move(catalog, batch_size)
                   IN  /\ files' = rows
                       /\ fetched' = IdsOf(rows)
                       /\ pc' = IF rows = << >> THEN "done" ELSE "batch"
                       /\ run' = IF rows = << >> THEN NoRun ELSE run
                       /\ last' = IF rows = << >>
                                  THEN [ op |-> "migrate_all_end", raised |-> "" ]
                                  ELSE [ op |-> "migrate_batch", raised |-> "",
                                         batch_size |-> batch_size ]
                       /\ prevFetched' = prevFetched
    /\ UNCHANGED << catalog, fs, moveCount, orig >>

\* The end of migrate_batch, as BatchEnd, in such a run
CliBatchEnd ==
    /\ pc = "batch"
    /\ files = << >>
    /\ stats' = [ stats EXCEPT
                    !.processed_files = Folded(@ + loc.processed, MaxBatchSize),
                    !.successful_files = Folded(@ + loc.successful, MaxBatchSize),
                    !.failed_files = Folded(@ + loc.failed, MaxBatchSize) ]
    /\ pc' = IF run.active THEN "all" ELSE "done"
    /\ last' = [ op |-> "migrate_batch_end", processed |-> loc.processed,
                 successful |-> loc.successful, failed |-> loc.failed ]
    /\ UNCHANGED << catalog, fs, files, loc, run, fetched, prevFetched,
                    moveCount, orig >>

\* Mutant of CmdMigrateExit: a run that raised nothing returns 0
CmdMigrateExit_zero ==
    /\ pc = "done"
    /\ CmdReturn(IF last.raised # "" THEN 1 ELSE 0, TRUE, last.raised)
    /\ UNCHANGED << catalog, fs, files, loc, stats, run, fetched,
                    prevFetched, moveCount, orig >>

\* The end of cmd_migrate: the statistics are printed and the exit code is
\* taken from failed_files, or a MigrationError of migrate_all is caught
CmdMigrateExit ==
    /\ pc = "done"
    /\ CmdReturn(IF last.raised # "" THEN 1
                 ELSE IF stats.failed_files = 0 THEN 0 ELSE 1,
                 TRUE, last.raised)
    /\ UNCHANGED << catalog, fs, files, loc, stats, run, fetched,
                    prevFetched, moveCount, orig >>

NextCli ==
    \/ \E m \in 0..MaxBatchSize, n \in 1..MaxBatchSize,
          i \in { "ok", "error" }, st \in { "ok", "error" },
          ia \in { "ok", "error" } : CmdMigrate(m, n, i, st, ia)
    \/ \E f \in { "ok", "error" } : CliAllLoop(f)
    \/ \E env \in Envs : MigrateSingleFile(env)
    \/ CliBatchEnd
    \/ CmdMigrateExit

\* The process runs on: a step that can be taken is taken
SpecCli == InitCli /\ [][NextCli]_vars /\ WF_vars(NextCli)

\* ------------------------------------------------------------------------
\* Successive migrate_batch calls and verify_migration on one Migrator
\* ------------------------------------------------------------------------
\* The partitioned tree is empty, every record has its file in base/, and
\* the configured batch size is any of 1..MaxBatchSize
InitRun ==
    /\ catalog \in [ Ids -> [ dt : DateTimes, ismooved : { FALSE },
                              dtmoove : { None } ] ]
    /\ \A id \in Ids : catalog[id].dt \in InitDates(id)
    /\ fs = [ base |-> [ id \in Ids |-> SourceContent(id) ],
              dirs |-> {}, newfs |-> << >> ]
    /\ orig = [ id \in Ids |-> SourceContent(id) ]
    /\ pc = "idle"
    /\ files = << >>
    /\ loc = ZeroLoc
    /\ stats = ZeroStats
    /\ \E b \in 1..MaxBatchSize :
          run = [ active |-> FALSE, max_files |-> 0, batch_size |-> b ]
    /\ last = NoCall
    /\ fetched = << >>
    /\ prevFetched = {}
    /\ moveCount = [ id \in Ids |-> 0 ]

\* migrate_batch() with the configured batch size
RunMigrateBatch(fetch) ==
    /\ stats.batch_count < MaxBatches
    /\ MigrateBatch(run.batch_size, fetch)

\* migrate_batch has returned its counts and the caller goes on with the
\* same Migrator; a MigrationError is not a return
MigrateBatchReturn ==
    /\ pc = "done"
    /\ last.op = "migrate_batch" => last.raised = ""
    /\ pc' = "idle"
    /\ UNCHANGED << catalog, fs, files, loc, stats, run, last, fetched,
                    prevFetched, moveCount, orig >>

\* Mutant of RunVerify: the rows checked are counted in the run's statistics
RunVerify_counted(sample_size, fetch) ==
    /\ pc = "idle"
    /\ LET v == verify_migration(catalog, fs, sample_size, fetch)
       IN  /\ last' = [ op |-> "verify_migration", sample_size |-> sample_size,
                        raised |-> v.raised, verified |-> v.verified,
                        errors |-> v.errors, total_checked |-> v.total_checked ]
           /\ stats' = [ stats EXCEPT !.processed_files = @ + 1 ]
    /\ UNCHANGED << catalog, fs, pc, files, loc, run, fetched,
                    prevFetched, moveCount, orig >>

\* verify_migration(sample_size), between two migrate_batch calls
RunVerify(sample_size, fetch) ==
    /\ pc = "idle"
    /\ LET v == verify_migration(catalog, fs, sample_size, fetch)
       IN  last' = [ op |-> "verify_migration", sample_size |-> sample_size,
                     raised |-> v.raised, verified |-> v.verified,
                     errors |-> v.errors, total_checked |-> v.total_checked ]
    /\ UNCHANGED << catalog, fs, pc, files, loc, stats, run, fetched,
                    prevFetched, moveCount, orig >>

NextRun ==
    \/ \E f \in { "ok", "error" } : RunMigrateBatch(f)
    \/ \E env \in Envs : MigrateSingleFile(env)
    \/ BatchEnd
    \/ MigrateBatchReturn
    \/ \E n \in 1..(MaxBatchSize + 1), f \in { "ok", "error" } : RunVerify(n, f)

SpecRun == InitRun /\ [][NextRun]_vars

\* ------------------------------------------------------------------------
\* Lookups of a file, between moves
\* ------------------------------------------------------------------------
\* FileOps.file_exists(idfl, ismooved, dt)
FsFileExists(idfl, ismooved, dt) ==
    /\ last' = [ op |-> "file_exists", id |-> idfl, ismooved |-> ismooved,
                 dt |-> dt, result |-> file_exists(fs, idfl, ismooved, dt) ]
    /\ UNCHANGED << catalog, fs, pc, files, loc, stats, run, fetched,
                    prevFetched, moveCount, orig >>

\* FileOps.get_file_size(idfl, ismooved, dt)
FsGetFileSize(idfl, ismooved, dt) ==
    /\ last' = [ op |-> "get_file_size", id |-> idfl, ismooved |-> ismooved,
                 dt |-> dt, result |-> get_file_size(fs, idfl, ismooved, dt) ]
    /\ UNCHANGED << catalog, fs, pc, files, loc, stats, run, fetched,
                    prevFetched, moveCount, orig >>

\* FileOps.get_file_hash(idfl, ismooved, dt); readOk FALSE is an error of
\* open or read
FsGetFileHash(idfl, ismooved, dt, readOk) ==
    /\ last' = [ op |-> "get_file_hash", id |-> idfl, ismooved |-> ismooved,
                 dt |-> dt, readOk |-> readOk,
                 result |-> get_file_hash(fs, idfl, ismooved, dt, readOk) ]
    /\ UNCHANGED << catalog, fs, pc, files, loc, stats, run, fetched,
                    prevFetched, moveCount, orig >>

NextLook ==
    \/ \E idfl \in Ids, dt \in DateTimes, ok \in BOOLEAN :
          FsMoveFile(idfl, dt, ok)
    \/ \E idfl \in Ids, m \in BOOLEAN, dt \in DateTimes :
          FsFileExists(idfl, m, dt)
    \/ \E idfl \in Ids, m \in BOOLEAN, dt \in DateTimes :
          FsGetFileSize(idfl, m, dt)
    \/ \E idfl \in Ids, m \in BOOLEAN, dt \in DateTimes, ok \in BOOLEAN :
          FsGetFileHash(idfl, m, dt, ok)

SpecLook == InitFs /\ [][NextLook]_vars

\* ------------------------------------------------------------------------
\* cleanup_empty_directories step by step, while other processes write
\* files and remove empty directories. During the call, files holds the
\* date directories still to visit, in the order iterdir listed them, and
\* loc its counters: processed the directories visited, successful its
\* removed_count, failed the OSErrors passed over.
\* ------------------------------------------------------------------------
\* Some date directories exist, some of them holding a file
InitClean ==
    /\ \E D \in SUBSET Days : \E F \in SUBSET D :
          fs = [ base |-> [ id \in Ids |-> SourceContent(id) ],
                 dirs |-> D,
                 newfs |-> [ q \in { << d, <<"a">> >> : d \in F } |-> "x" ] ]
    /\ catalog \in [ Ids -> [ dt : DateTimes, ismooved : { FALSE },
                              dtmoove : { None } ] ]
    /\ \A id \in Ids : catalog[id].dt = << 1, 0 >>
    /\ orig = [ id \in Ids |-> SourceContent(id) ]
    /\ pc = "idle"
    /\ files = << >>
    /\ loc = ZeroLoc
    /\ stats = ZeroStats
    /\ run = NoRun
    /\ last = NoCall
    /\ fetched = << >>
    /\ prevFetched = {}
    /\ moveCount = [ id \in Ids |-> 0 ]

\* The orders in which iterdir may list a set of directories
Listings(D) ==
    { q \in [ 1..Cardinality(D) -> D ] :
        \A i, j \in 1..Cardinality(D) : i # j => q[i] # q[j] }

\* cleanup_empty_directories up to its for loop: the root is listed; an
\* error there (listOk FALSE) goes to the outer handler, which returns 0
CleanupStart(listOk, listing) ==
    /\ pc = "idle"
    /\ listing \in Listings(fs.dirs)
    /\ loc' = ZeroLoc
    /\ IF listOk
       THEN /\ pc' = "cleanup"
            /\ files' = listing
            /\ last' = [ op |-> "cleanup_start" ]
       ELSE /\ pc' = "idle"
            /\ files' = << >>
            /\ last' = [ op |-> "cleanup_return", removed_count |-> 0 ]
    /\ UNCHANGED << catalog, fs, stats, run, fetched, prevFetched, moveCount,
                    orig >>

\* One turn of the for loop up to rmdir: is_dir() and any(iterdir()). A
\* directory that is gone or has an entry is passed over.
CleanupCheck ==
    /\ pc = "cleanup"
    /\ files # << >>
    /\ LET date_dir == Head(files)
           empty == /\ date_dir \in fs.dirs
                    /\ ~\E q \in DOMAIN fs.newfs : q[1] = date_dir
       IN  /\ last' = [ op |-> "cleanup_check", dir |-> date_dir,
                        empty |-> empty ]
           /\ IF empty
              THEN /\ pc' = "rmdir"
                   /\ UNCHANGED << files, loc >>
              ELSE /\ pc' = "cleanup"
                   /\ files' = Tail(files)
                   /\ loc' = [ loc EXCEPT !.processed = @ + 1 ]
    /\ UNCHANGED << catalog, fs, stats, run, fetched, prevFetched, moveCount,
                    orig >>

\* Mutant of CleanupRmdir: a directory that is no longer empty is removed
\* with what it holds
CleanupRmdir_rmtree ==
    /\ pc = "rmdir"
    /\ LET date_dir == Head(files)
       IN  IF date_dir \in fs.dirs
           THEN /\ fs' = [ fs EXCEPT
                             !.dirs = @ \ { date_dir },
                             !.newfs = [ q \in { x \in DOMAIN fs.newfs :
                                                   x[1] # date_dir }
                                           |-> fs.newfs[q] ] ]
                /\ loc' = [ loc EXCEPT !.processed = @ + 1,
                                       !.successful = @ + 1 ]
                /\ last' = [ op |-> "rmdir", dir |-> date_dir,
                             raised |-> FALSE ]
           ELSE /\ fs' = fs
                /\ loc' = [ loc EXCEPT !.processed = @ + 1, !.failed = @ + 1 ]
                /\ last' = [ op |-> "rmdir", dir |-> date_dir,
                             raised |-> TRUE ]
    /\ files' = Tail(files)
    /\ pc' = "cleanup"
    /\ UNCHANGED << catalog, stats, run, fetched, prevFetched, moveCount,
                    orig >>

\* date_dir.rmdir() and what follows: rmdir removes a directory that is
\* there and empty, and removed_count goes up; on a directory that is gone
\* or holds an entry it raises OSError, which is passed over
CleanupRmdir ==
    /\ pc = "rmdir"
    /\ LET date_dir == Head(files)
       IN  IF /\ date_dir \in fs.dirs
              /\ ~\E q \in DOMAIN fs.newfs : q[1] = date_dir
           THEN /\ fs' = [ fs EXCEPT !.dirs = @ \ { date_dir } ]
                /\ loc' = [ loc EXCEPT !.processed = @ + 1,
                                       !.successful = @ + 1 ]
                /\ last' = [ op |-> "rmdir", dir |-> date_dir,
                             raised |-> FALSE ]
           ELSE /\ fs' = fs
                /\ loc' = [ loc EXCEPT !.processed = @ + 1, !.failed = @ + 1 ]
                /\ last' = [ op |-> "rmdir", dir |-> date_dir,
                             raised |-> TRUE ]
    /\ files' = Tail(files)
    /\ pc' = "cleanup"
    /\ UNCHANGED << catalog, stats, run, fetched, prevFetched, moveCount,
                    orig >>

\* The end of cleanup_empty_directories: removed_count is returned
CleanupReturn ==
    /\ pc = "cleanup"
    /\ files = << >>
    /\ pc' = "idle"
    /\ last' = [ op |-> "cleanup_return", removed_count |-> loc.successful ]
    /\ loc' = ZeroLoc
    /\ UNCHANGED << catalog, fs, files, stats, run, fetched, prevFetched,
                    moveCount, orig >>

NextClean ==
    \/ \E ok \in BOOLEAN, q \in Listings(fs.dirs) : CleanupStart(ok, q)
    \/ CleanupCheck
    \/ CleanupRmdir
    \/ CleanupReturn
    \/ \E idfl \in WriteNames, dt \in { << 0, 0 >>, << 1, 0 >> } :
          FsWriteFile(idfl, "w", dt, TRUE)
    \/ FsCleanupEmptyDirectories(TRUE, {})

SpecClean == InitClean /\ [][NextClean]_vars

\* ------------------------------------------------------------------------
\* verify_migration on a Migrator whose Database is a stub, as in
\* test_verify_migration: get_files_to_move returns the rows it was told to
\* ------------------------------------------------------------------------
\* The rows a stub returns: record "a" under either of its dates, record
\* "b.t" under its own, moved or not
StubRow ==
    { f \in [ IDFL : { <<"a">>, <<"b", ".", "t">> },
              dt : { << 0, 1 >>, << 1, 0 >> },
              ismooved : BOOLEAN, dtmoove : { None } ] :
        f.dt \in InitDates(f.IDFL) }

\* The lists of rows a stub returns: none, one, or two of different records
StubRows ==
    { << >> } \cup { << f >> : f \in StubRow }
              \cup { q \in { << f, g >> : f \in StubRow, g \in StubRow } :
                       q[1].IDFL # q[2].IDFL }

\* verify_migration(sample_size) with get_files_to_move returning rows
VerifyStubbed(rows, sample_size) ==
    /\ pc = "idle"
    /\ LET v == verify_rows(fs, rows, sample_size)
       IN  last' = [ op |-> "verify_migration", sample_size |-> sample_size,
                     rows |-> rows, raised |-> v.raised,
                     verified |-> v.verified, errors |-> v.errors,
                     total_checked |-> v.total_checked,
                     details |-> v.details ]
    /\ UNCHANGED << catalog, fs, pc, files, loc, stats, run, fetched,
                    prevFetched, moveCount, orig >>

NextVerify ==
    \/ \E idfl \in Ids, dt \in DateTimes, ok \in BOOLEAN :
          FsMoveFile(idfl, dt, ok)
    \/ \E rows \in StubRows, n \in 1..MaxBatchSize : VerifyStubbed(rows, n)

SpecVerify == InitFs /\ [][NextVerify]_vars

\* ------------------------------------------------------------------------
\* The command in an environment where nothing fails: the catalog answers
\* every call, files can be read and moved
\* ------------------------------------------------------------------------
CalmEnv ==
    [ srcRead |-> TRUE, dstRead |-> TRUE, moveOk |-> TRUE, mark |-> "ok",
      now |-> 1 ]

NextCalm ==
    \/ \E m \in 0..MaxBatchSize, n \in 1..MaxBatchSize :
          CmdMigrate(m, n, "ok", "ok", "ok")
    \/ CliAllLoop("ok")
    \/ MigrateSingleFile(CalmEnv)
    \/ CliBatchEnd
    \/ CmdMigrateExit

\* The process runs on: a step that can be taken is taken
SpecCalm == InitCli /\ [][NextCalm]_vars /\ WF_vars(NextCalm)

\* ------------------------------------------------------------------------
\* The command stopped in the middle of a record and started again
\* ------------------------------------------------------------------------
\* The process stops while _migrate_single_file works on the first record
\* left of the batch: before it has changed anything, or after move_file
\* has returned and before mark_file_moved is called. What the process had
\* in memory is gone, the catalog and the files stay as they are.
Crash(point) ==
    /\ pc = "batch"
    /\ files # << >>
    /\ LET file_info == Head(files)
           idfl == file_info.IDFL
       IN  /\ IF point = "after_move"
              THEN /\ file_exists(fs, idfl, FALSE, file_info.dt)
                   /\ LET mv == move_file(fs, idfl, file_info.dt, TRUE)
                      IN  fs' = mv.fs
                   /\ moveCount' = [ moveCount EXCEPT ![idfl] = @ + 1 ]
              ELSE UNCHANGED << fs, moveCount >>
           /\ last' = [ op |-> "crash", id |-> idfl, point |-> point ]
    /\ pc' = "crashed"
    /\ files' = << >>
    /\ loc' = ZeroLoc
    /\ stats' = ZeroStats
    /\ run' = NoRun
    /\ fetched' = << >>
    /\ prevFetched' = {}
    /\ UNCHANGED << catalog, orig >>

\* A new process is started for the next command (main.py builds its
\* Migrator in setup), after a stop or after a command that returned
Recover ==
    /\ pc \in { "crashed", "exit" }
    /\ pc' = "idle"
    /\ last' = IF pc = "crashed"
               THEN [ op |-> "recovered", id |-> last.id, point |-> last.point ]
               ELSE [ op |-> "restart" ]
    /\ files' = << >>
    /\ loc' = ZeroLoc
    /\ stats' = ZeroStats
    /\ run' = NoRun
    /\ fetched' = << >>
    /\ prevFetched' = {}
    /\ UNCHANGED << catalog, fs, moveCount, orig >>

NextCrash ==
    \/ NextCli
    \/ \E point \in { "before_move", "after_move" } : Crash(point)
    \/ Recover

\* The process runs on when it can and is started again when it has
\* stopped; nothing makes it stop in the middle of a record
SpecCrash ==
    InitCli /\ [][NextCrash]_vars /\ WF_vars(NextCli) /\ WF_vars(Recover)

\* ------------------------------------------------------------------------
\* A full run while another program registers new records
\* ------------------------------------------------------------------------
\* The table holds one or two of the records, all unmoved, their files in
\* the flat directory; the partitioned tree is empty
InitIns ==
    /\ \E D \in SUBSET Ids :
          /\ D # {}
          /\ D # Ids
          /\ catalog \in [ D -> [ dt : DateTimes, ismooved : { FALSE },
                                  dtmoove : { None } ] ]
          /\ \A id \in D : catalog[id].dt \in InitDates(id)
          /\ fs = [ base |-> [ id \in D |-> SourceContent(id) ],
                    dirs |-> {}, newfs |-> << >> ]
    /\ orig = [ id \in Ids |-> SourceContent(id) ]
    /\ pc = "idle"
    /\ files = << >>
    /\ loc = ZeroLoc
    /\ stats = ZeroStats
    /\ run = NoRun
    /\ last = NoCall
    /\ fetched = << >>
    /\ prevFetched = {}
    /\ moveCount = [ id \in Ids |-> 0 ]

\* Another program calls insert_new_file(idfl, filename, dt) at any moment
\* of the run for a record the table does not hold yet, having put its file
\* in the flat directory
InsertNewFile(idfl, dt, outcome) ==
    /\ pc \in { "all", "batch" }
    /\ idfl \notin DOMAIN catalog
    /\ LET r == insert_new_file(catalog, idfl, dt, outcome)
       IN  /\ catalog' = r.catalog
           /\ fs' = IF r.result /\ idfl \notin DOMAIN catalog
                    THEN [ fs EXCEPT !.base = Put(@, idfl, SourceContent(idfl)) ]
                    ELSE fs
           /\ last' = [ op |-> "insert_new_file", id |-> idfl, dt |-> dt,
                        result |-> r.result,
                        new |-> r.result /\ idfl \notin DOMAIN catalog ]
    /\ UNCHANGED << pc, files, loc, stats, run, fetched, prevFetched,
                    moveCount, orig >>

NextIns ==
    \/ \E m \in 0..MaxBatchSize, n \in 1..MaxBatchSize, i \in { "ok", "error" } :
          MigrateAll(m, n, i)
    \/ \E f \in { "ok", "error" } : AllLoop(f)
    \/ \E env \in Envs : MigrateSingleFile(env)
    \/ BatchEnd
    \/ \E id \in Ids, o \in { "ok", "error" } :
          \E dt \in InitDates(id) : InsertNewFile(id, dt, o)

SpecIns == InitIns /\ [][NextIns]_vars

\* ------------------------------------------------------------------------
\* Properties
\* ------------------------------------------------------------------------
\* A batch has just been fetched and none of its rows attempted yet
JustFetched == pc = "batch" /\ Len(files) = Len(fetched)

\* The step is one per-record transition
RecordStep == pc \in { "batch", "range" } /\ files # << >>
              /\ files' = Tail(files) /\ pc' = pc

\* The path of record id in the partitioned layout
PartitionedPath(id) == << strftime(catalog[id].dt), id >>

\* C1 (resumability): no row waiting to be attempted is marked moved; a batch
\* fetched is exactly the first min(batch_size, unmoved) unmoved rows, and
\* after a batch was cut short the next one takes the rows that batch left
\* unmoved first: all of them when they fit, only them when they do not.
C1_Resumability ==
    /\ \A i \in 1..Len(files) : ~catalog[files[i].IDFL].ismooved
    /\ JustFetched =>
         LET got == Range(fetched)
             remaining == { id \in prevFetched : ~catalog[id].ismooved }
         IN  /\ got \subseteq Unmoved(catalog)
             /\ Len(fetched) = Cardinality(got)
             /\ Cardinality(got)
                  = Min(last.batch_size, Cardinality(Unmoved(catalog)))
             /\ Cardinality(got) >= Cardinality(remaining)
                  => remaining \subseteq got
             /\ Cardinality(got) <= Cardinality(remaining)
                  => got \subseteq remaining

\* C1 witness: a batch of two was cut short after one row was marked, and
\* the next batch has been fetched
C1_Witness ==
    /\ JustFetched
    /\ \E id \in prevFetched : catalog[id].ismooved
    /\ \E id \in prevFetched : ~catalog[id].ismooved

\* C2 (at-most-once move): the file of a record leaves base/<id> at most once
C2_AtMostOnceMove == \A id \in Ids : moveCount[id] <= 1

\* C2 witness: a record whose file was moved but whose row stayed unmoved
\* has been attempted again
C2_Witness ==
    /\ last.op = "_migrate_single_file"
    /\ last.why = "not_found"
    /\ moveCount[last.id] = 1
    /\ ~catalog[last.id].ismooved

\* C3 (catalog fields): ismooved false goes with dtmoove NULL, ismooved true
\* with dtmoove set
C3_FieldInvariant ==
    \A id \in Ids :
        /\ ~catalog[id].ismooved => catalog[id].dtmoove = None
        /\ catalog[id].ismooved => catalog[id].dtmoove # None

\* C3 witness: a run has marked a row
C3_Witness ==
    /\ last.op = "_migrate_single_file"
    /\ last.result
    /\ catalog[last.id].ismooved

\* C4 (catalog and file system agree): a row marked moved has its file at
\* new_base/<YYYYMMDD>/<id>, holding what base/<id> held
C4_MovedFileInPlace ==
    \A id \in Ids :
        catalog[id].ismooved =>
            /\ PartitionedPath(id) \in DOMAIN fs.newfs
            /\ fs.newfs[PartitionedPath(id)] = orig[id]

\* C5 (mark-moved is idempotent): a row that is moved keeps ismooved and
\* dtmoove through every later call
C5_MarkIdempotent ==
    [][ \A id \in Ids : catalog[id].ismooved => catalog'[id] = catalog[id] ]_vars

\* C5 witness: a second call, with another timestamp, ran on a moved row
C5_Witness ==
    /\ last.op = "mark_file_moved"
    /\ last.id \in Ids
    /\ last.result
    /\ ~last.transitioned
    /\ catalog[last.id].ismooved
    /\ catalog[last.id].dtmoove # << last.t >>

\* C6 (return value of mark-moved): true only when the call turned the row
\* from unmoved to moved
C6_TrueOnlyOnTransition ==
    (last.op = "mark_file_moved" /\ ~last.raised /\ last.result)
        => last.transitioned

\* C7 (integrity gate): when both hashes were obtained and differ the record
\* fails, mark_file_moved is not called and the row stays unmoved
C7_IntegrityGate ==
    ( /\ last.op = "_migrate_single_file"
      /\ last.old_hash # None
      /\ last.new_hash # None
      /\ last.old_hash # last.new_hash )
    => ( /\ ~last.result
         /\ ~last.mark_called
         /\ ~catalog[last.id].ismooved )

\* C7 witness: a transition obtained two different hashes
C7_Witness ==
    /\ last.op = "_migrate_single_file"
    /\ last.old_hash # None
    /\ last.new_hash # None
    /\ last.old_hash # last.new_hash

\* C8 (source missing): a per-record transition that finds no base/<id>
\* fails and leaves the catalog and both trees as they were
C8_SourceMissing ==
    [][ (RecordStep /\ Head(files).IDFL \notin DOMAIN fs.base)
          => ( /\ catalog' = catalog
               /\ fs' = fs
               /\ ~last'.result
               /\ ~last'.mark_called
               /\ last'.path = None ) ]_vars

\* C8 witness: a transition found its source missing
C8_Witness ==
    /\ last.op = "_migrate_single_file"
    /\ last.why = "not_found"
    /\ last.id \notin DOMAIN fs.base

\* C9 (no overwrite): every file of the partitioned tree is still there with
\* its content after any call, and a file placed by move_file or write_file
\* is at a path that was free
C9_NoOverwrite ==
    [][ /\ \A p \in DOMAIN fs.newfs :
             p \in DOMAIN fs'.newfs /\ fs'.newfs[p] = fs.newfs[p]
        /\ (last'.op \in { "move_file", "write_file" } /\ fs'.newfs # fs.newfs)
             => ( /\ last'.path \notin DOMAIN fs.newfs
                  /\ DOMAIN fs'.newfs = DOMAIN fs.newfs \cup { last'.path } )
        /\ (last'.op \in { "move_file", "write_file" } /\ last'.raised = ""
              /\ fs' # fs)
             => fs'.newfs # fs.newfs ]_vars

\* C9 witness: move_file or write_file met a file of the same name
C9_Witness ==
    /\ last.op \in { "move_file", "write_file" }
    /\ last.raised = ""
    /\ last.path[2] # last.id
    /\ << last.path[1], last.id >> \in DOMAIN fs.newfs

\* The split of a name at its last '.': the stem, and the extension with
\* its '.', empty when the name has none
C10_Cut(name) ==
    IF \E i \in 1..Len(name) : name[i] = "."
    THEN CHOOSE i \in 1..Len(name) :
             name[i] = "." /\ \A j \in (i + 1)..Len(name) : name[j] # "."
    ELSE Len(name) + 1
C10_Stem(name) == SubSeq(name, 1, C10_Cut(name) - 1)
C10_Ext(name) == SubSeq(name, C10_Cut(name), Len(name))
C10_Candidate(name, k) ==
    C10_Stem(name) \o <<"_">> \o IntToStr(k) \o C10_Ext(name)

\* C10 (collision-safe naming): the name itself when free, else
\* <stem>_<k><ext> for the smallest k >= 1 that is free; never a taken path
C10_UniqueName ==
    last.op = "_get_unique_filename" =>
        LET d == last.directory
            n == last.filename
            taken == { p[2] : p \in { q \in DOMAIN fs.newfs : q[1] = d } }
        IN  /\ last.path[1] = d
            /\ last.path \notin DOMAIN fs.newfs
            /\ n \notin taken => last.path[2] = n
            /\ n \in taken =>
                 \E k \in 1..(Cardinality(taken) + 1) :
                     /\ last.path[2] = C10_Candidate(n, k)
                     /\ \A j \in 1..(k - 1) : C10_Candidate(n, j) \in taken

\* C10 witness: "b.t" and "b_1.t" are taken and the call returned "b_2.t"
C10_Witness ==
    /\ last.op = "_get_unique_filename"
    /\ last.filename = <<"b", ".", "t">>
    /\ last.path[2] = <<"b", "_", "2", ".", "t">>

\* C11 (partition correctness): the path move_file returns is in the directory
\* of the day of the dt it was given, whatever the time of day, and the call
\* puts no file and creates no directory anywhere else
C11_PartitionCorrect ==
    [][ (last'.op = "move_file" /\ last'.raised = "")
          => ( /\ last'.path[1] = last'.dt[1]
               /\ \A p \in DOMAIN fs'.newfs \ DOMAIN fs.newfs :
                     p[1] = last'.dt[1]
               /\ fs'.dirs \ fs.dirs \subseteq { last'.dt[1] } ) ]_vars

\* C11 witness: a file registered late on day 0 was placed in directory 0
\* while the directory of day 1 holds a file too
C11_Witness ==
    /\ last.op = "move_file"
    /\ last.raised = ""
    /\ last.dt = << 0, 1 >>
    /\ last.path[1] = 0
    /\ \E p \in DOMAIN fs.newfs : p[1] = 1

\* Row r comes before row s in the order (registered date, id)
C12_Before(r, s) ==
    DtLess(r.dt, s.dt) \/ (r.dt = s.dt /\ StrLess(r.IDFL, s.IDFL))

\* Sequence s is a prefix of sequence t
C12_Prefix(s, t) == Len(s) <= Len(t) /\ s = SubSeq(t, 1, Len(s))

\* C12 (fetch of unmoved rows): get_files_to_move(limit) returns
\* min(limit, number of unmoved rows) rows, each an unmoved row as the table
\* holds it, in ascending (dt, IDFL) order, every unmoved row left out coming
\* after every row returned; and of two calls in a row on the same table the
\* one with the smaller limit returns a prefix of the other
C12_FetchUnmoved ==
    [][ (last'.op = "get_files_to_move" /\ ~last'.raised) =>
          LET rows == last'.rows
              got == { rows[i].IDFL : i \in 1..Len(rows) }
              unmoved == { id \in Ids : ~catalog'[id].ismooved }
          IN  /\ Len(rows) = Min(last'.batch_size, Cardinality(unmoved))
              /\ \A i \in 1..Len(rows) :
                    /\ rows[i].IDFL \in unmoved
                    /\ ~rows[i].ismooved
                    /\ rows[i].dt = catalog'[rows[i].IDFL].dt
              /\ \A i, j \in 1..Len(rows) :
                    i < j => C12_Before(rows[i], rows[j])
              /\ \A id \in unmoved \ got : \A i \in 1..Len(rows) :
                    C12_Before(rows[i], [ IDFL |-> id, dt |-> catalog'[id].dt ])
              /\ (last.op = "get_files_to_move" /\ ~last.raised
                     /\ catalog' = catalog)
                    => IF last.batch_size <= last'.batch_size
                       THEN C12_Prefix(last.rows, rows)
                       ELSE C12_Prefix(rows, last.rows) ]_vars

\* C12 witness: with a moved row in the table, a fetch returned two rows of
\* the same registered date, in the order of their ids
C12_Witness ==
    /\ last.op = "get_files_to_move"
    /\ ~last.raised
    /\ \E id \in Ids : catalog[id].ismooved
    /\ Len(last.rows) = 2
    /\ last.rows[1].dt = last.rows[2].dt

\* C13 (a record's failure does not abort the batch): while migrate_batch
\* runs, the rows attempted so far are the first rows of the fetch and the
\* rows still to attempt are the rest of it, in order, each attempt counted
\* as a success or as a failure; the call returns with processed equal to the
\* number of rows fetched
C13_BatchNotAborted ==
    /\ pc = "batch" =>
          /\ loc.processed = Len(fetched) - Len(files)
          /\ IdsOf(files) = SubSeq(fetched, loc.processed + 1, Len(fetched))
          /\ loc.successful + loc.failed = loc.processed
    /\ last.op = "migrate_batch_end" =>
          /\ last.processed = Len(fetched)
          /\ last.successful + last.failed = last.processed

\* C13 witness: a batch of two has returned, its first record failed and its
\* second was migrated
C13_Witness ==
    /\ last.op = "migrate_batch_end"
    /\ Len(fetched) = 2
    /\ last.failed = 1
    /\ last.successful = 1
    /\ ~catalog[fetched[1]].ismooved
    /\ catalog[fetched[2]].ismooved

\* C14 (failed fetch): when the fetch of a batch fails, migrate_batch raises
\* MigrationError, through migrate_all when that is the caller, and the step
\* leaves the catalog, both trees and the processed, successful and failed
\* counters as they were
C14_FetchFailure ==
    [][ ( /\ last'.op \in { "migrate_batch", "migrate_all_end" }
          /\ last'.raised = "MigrationError"
          /\ last' # last )
        => ( /\ catalog' = catalog
             /\ fs' = fs
             /\ moveCount' = moveCount
             /\ files' = << >>
             /\ stats'.processed_files = stats.processed_files
             /\ stats'.successful_files = stats.successful_files
             /\ stats'.failed_files = stats.failed_files ) ]_vars

\* C14 witness: the fetch of a later batch of a run failed, after records
\* were processed and one of them failed
C14_Witness ==
    /\ last.op = "migrate_all_end"
    /\ last.raised = "MigrationError"
    /\ stats.processed_files > 0
    /\ stats.failed_files > 0
    /\ \E id \in Ids : catalog[id].ismooved

\* C15 (error list): when a command has ended, the error list of the run
\* holds one entry for each record counted in failed_files
C15_ErrorsAccumulated ==
    pc = "done" => Len(stats.errors) = stats.failed_files

\* C18 (cap): in migrate_all(max_files = N), N > 0, a batch is fetched with
\* size min(configured batch size, N - processed so far), which is at least
\* 1, and the records attempted and fetched never exceed N
C18_Cap ==
    (run.active /\ run.max_files > 0) =>
        /\ stats.processed_files <= run.max_files
        /\ pc = "batch" =>
              /\ stats.processed_files + Len(fetched) <= run.max_files
              /\ stats.processed_files + loc.processed + Len(files)
                    <= run.max_files
        /\ JustFetched =>
              /\ last.batch_size
                    = Min(run.batch_size, run.max_files - stats.processed_files)
              /\ last.batch_size >= 1
              /\ Len(fetched) <= last.batch_size

\* C18 witness: a batch was fetched with less than the configured size,
\* because the cap left less
C18_Witness ==
    /\ JustFetched
    /\ run.active
    /\ run.max_files > 0
    /\ last.batch_size < run.batch_size
    /\ Len(fetched) = last.batch_size

\* C16 (exit code of migrate): the command returns non-zero when the run
\* ended with failed_files > 0, when the migrator could not initialize and
\* when the run raised; it returns 0 only when no record failed
C16_ExitCode ==
    pc = "exit" =>
        /\ (stats.failed_files > 0 \/ ~last.initialized \/ last.raised # "")
              => last.exit_code # 0
        /\ last.exit_code = 0 => stats.failed_files = 0

\* C16 witness: a run that migrated a record and failed on another has
\* returned 1 without any error raised
C16_Witness ==
    /\ pc = "exit"
    /\ last.exit_code = 1
    /\ last.initialized
    /\ last.raised = ""
    /\ stats.successful_files > 0
    /\ stats.failed_files > 0

\* An attempt has just failed by a move, hash or catalog error, which may
\* not happen again on the next attempt
C17_TransientFailure ==
    /\ last.op = "_migrate_single_file"
    /\ ~last.result
    /\ last.why # "not_found"

\* C17 (termination): the command, and so the migrate_all it runs, comes to
\* its end, unless attempts fail by move, hash or catalog errors again and
\* again without end
C17_Terminates ==
    <>(pc \in { "done", "exit" }) \/ []<>C17_TransientFailure

\* Record a comes before record b in the order (registered date, id)
C19_Before(a, b) ==
    \/ DtLess(catalog[a].dt, catalog[b].dt)
    \/ catalog[a].dt = catalog[b].dt /\ StrLess(a, b)

\* C19 (batches end to end): starting from M unmoved records with their
\* files in base/ and an empty partitioned tree, when the k-th migrate_batch
\* call with batch size b has returned and no attempt has failed, min(k*b, M)
\* rows are moved and they are the first in (dt, IDFL) order; base/ holds the
\* files of the unmoved rows only (none once all are moved) and each date
\* directory holds as many files as there are moved records of that date
C19_Batching ==
    ( /\ pc = "done"
      /\ last.op = "migrate_batch" => last.raised = ""
      /\ stats.failed_files = 0 )
    => LET moved == { id \in Ids : catalog[id].ismooved }
       IN  /\ Cardinality(moved)
                = Min(stats.batch_count * run.batch_size, Cardinality(Ids))
           /\ \A a \in moved, b \in Ids \ moved : C19_Before(a, b)
           /\ DOMAIN fs.base = Ids \ moved
           /\ \A d \in Days :
                 Cardinality({ q \in DOMAIN fs.newfs : q[1] = d })
                   = Cardinality({ id \in moved : catalog[id].dt[1] = d })

\* C19 witness: the second call has returned, every row is moved and one
\* date directory holds two files
C19_Witness ==
    /\ pc = "done"
    /\ last.op = "migrate_batch_end"
    /\ stats.failed_files = 0
    /\ stats.batch_count = 2
    /\ \A id \in Ids : catalog[id].ismooved
    /\ \E d \in Days : Cardinality({ q \in DOMAIN fs.newfs : q[1] = d }) = 2

\* C20 (verification result): when the k rows marked moved have their files
\* at their partitioned paths with a size other than 0 and the sample size
\* is at least k, verify_migration reports verified = k and errors = 0
C20_VerifyResult ==
    (last.op = "verify_migration" /\ last.raised = "") =>
        LET moved == { id \in Ids : catalog[id].ismooved }
        IN  ( /\ \A id \in moved :
                    /\ PartitionedPath(id) \in DOMAIN fs.newfs
                    /\ fs.newfs[PartitionedPath(id)] # ""
              /\ last.sample_size >= Cardinality(moved) )
            => ( /\ last.verified = Cardinality(moved)
                 /\ last.errors = 0 )

\* C21 (verification is read-only): a verify_migration call, whatever the
\* sample size and however it ends, leaves the catalog rows, both trees and
\* the statistics of the run as they were
C21_VerifyReadOnly ==
    [][ (last'.op = "verify_migration" /\ pc = "idle" /\ pc' = "idle")
          => ( /\ catalog' = catalog
               /\ fs' = fs
               /\ stats' = stats
               /\ loc' = loc ) ]_vars

\* C21 witness: verify_migration has run on a Migrator that has processed
\* records, with moved and unmoved rows in the catalog
C21_Witness ==
    /\ last.op = "verify_migration"
    /\ last.raised = ""
    /\ stats.processed_files > 0
    /\ \E id \in Ids : catalog[id].ismooved
    /\ \E id \in Ids : ~catalog[id].ismooved

\* The date directories of a tree that hold no file
C22_Empty(tree) ==
    { d \in tree.dirs : ~\E q \in DOMAIN tree.newfs : q[1] = d }

\* C22 (removal of empty date directories): cleanup_empty_directories leaves
\* every file and every date directory that holds a file as it is, removes
\* only directories that hold nothing, returns the number it removed, and
\* when no OSError occurs removes every directory that holds nothing
C22_CleanupEmpty ==
    [][ last'.op = "cleanup_empty_directories" =>
          /\ fs'.newfs = fs.newfs
          /\ fs'.base = fs.base
          /\ fs'.dirs \subseteq fs.dirs
          /\ fs.dirs \ fs'.dirs \subseteq C22_Empty(fs)
          /\ last'.removed_count = Cardinality(fs.dirs \ fs'.dirs)
          /\ ~last'.oserror => fs'.dirs = fs.dirs \ C22_Empty(fs) ]_vars

\* C22 witness: a call removed one empty date directory and left one that
\* holds a file
C22_Witness ==
    /\ last.op = "cleanup_empty_directories"
    /\ ~last.oserror
    /\ last.removed_count = 1
    /\ Cardinality(fs.dirs) = 1
    /\ DOMAIN fs.newfs # {}

\* C23 (two callers mark the same row): of two mark_file_moved calls in a
\* row on the same row, the first of which turned it from unmoved to moved,
\* the second does not return True
C23_OneWinner ==
    [][ ( /\ last.op = "mark_file_moved"
          /\ last.id \in Ids
          /\ last.transitioned
          /\ last'.op = "mark_file_moved"
          /\ last'.id = last.id
          /\ ~last'.raised )
        => ~last'.result ]_vars

\* C30 (move of a missing source): move_file on an id that has no file in
\* base/ raises FileNotFoundError and leaves both trees as they were: no
\* file moves and no date directory is created
C30_MoveNotFound ==
    [][ (last'.op = "move_file" /\ last'.id \notin DOMAIN fs.base)
          => ( /\ last'.raised = "FileNotFoundError"
               /\ last'.path = None
               /\ fs' = fs ) ]_vars

\* C30 witness: move_file failed on a missing source and the directory of
\* the date it was given does not exist
C30_Witness ==
    /\ last.op = "move_file"
    /\ last.raised = "FileNotFoundError"
    /\ last.id \notin DOMAIN fs.base
    /\ last.dt[1] \notin fs.dirs

\* The records migrate_by_date_range(start_date, end_date) is to attempt
C24_InRange(cat, start_date, end_date) ==
    { id \in Ids : /\ DtLeq(start_date, cat[id].dt)
                   /\ DtLeq(cat[id].dt, end_date)
                   /\ ~cat[id].ismooved }

\* C24 (date-range run): migrate_by_date_range(start, end) takes exactly the
\* rows with start <= dt <= end that are unmoved when it fetches, in
\* ascending (dt, IDFL) order, and attempts them one by one in that order,
\* each once; an attempt changes the row, the source file and the number of
\* moves of no other record, so rows out of the range and rows already moved
\* are neither moved nor written; the call returns when all were attempted
C24_DateRange ==
    [][ /\ (last'.op = "migrate_by_date_range" /\ last'.raised = "") =>
              /\ Range(fetched') =
                    C24_InRange(catalog, last'.start_date, last'.end_date)
              /\ Len(fetched') = Cardinality(Range(fetched'))
              /\ \A i, j \in 1..Len(fetched') :
                    i < j => C12_Before(files'[i], files'[j])
              /\ IdsOf(files') = fetched'
              /\ stats'.total_files = Len(fetched')
              /\ catalog' = catalog
              /\ fs' = fs
        /\ (pc = "range" /\ last'.op = "_migrate_single_file") =>
              /\ last'.id = fetched[Len(fetched) - Len(files) + 1]
              /\ Len(files') = Len(files) - 1
              /\ IdsOf(files') = SubSeq(fetched, Len(fetched) - Len(files) + 2,
                                        Len(fetched))
              /\ stats'.processed_files = stats.processed_files + 1
              /\ \A id \in Ids \ { last'.id } :
                    /\ catalog'[id] = catalog[id]
                    /\ moveCount'[id] = moveCount[id]
                    /\ (id \in DOMAIN fs'.base) = (id \in DOMAIN fs.base)
        /\ (pc = "range" /\ last'.op = "migrate_by_date_range_end") =>
              /\ files = << >>
              /\ stats.processed_files = Len(fetched)
              /\ catalog' = catalog
              /\ fs' = fs ]_vars

\* C24 witness: a date-range run attempted every row it fetched and moved
\* one, while a row moved earlier and an unmoved row with its source file
\* in place were out of it
C24_Witness ==
    /\ pc = "range"
    /\ files = << >>
    /\ fetched # << >>
    /\ \E id \in Range(fetched) : catalog[id].ismooved /\ moveCount[id] = 1
    /\ \E id \in Ids \ Range(fetched) : catalog[id].ismooved
    /\ \E id \in Ids \ Range(fetched) :
          ~catalog[id].ismooved /\ id \in DOMAIN fs.base /\ moveCount[id] = 0

\* C26 (catalog update fails after the move): when mark_file_moved returns
\* False or raises once the file was moved, _migrate_single_file returns
\* False, the file is at the partitioned path it was moved to with the
\* content it had and no longer in the flat directory, the row is still
\* unmoved, and the batch counts the record as failed, not as successful
C26_MarkFailure ==
    [][ ( /\ RecordStep
          /\ pc = "batch"
          /\ last'.op = "_migrate_single_file"
          /\ last'.mark_called
          /\ last'.why \in { "mark_failed", "exception" } )
        => ( /\ ~last'.result
             /\ last'.path # None
             /\ last'.path = PartitionedPath(last'.id)
             /\ last'.path \in DOMAIN fs'.newfs
             /\ fs'.newfs[last'.path] = fs.base[last'.id]
             /\ last'.id \notin DOMAIN fs'.base
             /\ ~catalog'[last'.id].ismooved
             /\ loc'.failed = loc.failed + 1
             /\ loc'.successful = loc.successful
             /\ loc'.processed = loc.processed + 1 ) ]_vars

\* C26 witness: the catalog update returned False after a move and the
\* batch has counted the record as failed
C26_Witness ==
    /\ pc = "batch"
    /\ last.op = "_migrate_single_file"
    /\ last.why = "mark_failed"
    /\ last.mark_called
    /\ last.path \in DOMAIN fs.newfs
    /\ loc.failed >= 1

\* C27 (a hash could not be read): when get_file_hash returned None for the
\* source or for the destination, _migrate_single_file does not fail for
\* that: it never ends in an integrity failure, and unless move_file itself
\* raised the file is moved, mark_file_moved is called and the call returns
\* True exactly when the row became moved
C27_HashAbsent ==
    [][ ( /\ RecordStep
          /\ last'.op = "_migrate_single_file"
          /\ last'.why # "not_found"
          /\ (last'.old_hash = None \/ last'.new_hash = None) )
        => ( /\ last'.why # "integrity"
             /\ IF last'.path = None
                THEN /\ last'.why = "exception"
                     /\ ~last'.mark_called
                     /\ last'.id \in DOMAIN fs'.base
                ELSE /\ last'.mark_called
                     /\ last'.path \in DOMAIN fs'.newfs
                     /\ last'.id \notin DOMAIN fs'.base
                     /\ last'.result = catalog'[last'.id].ismooved
                     /\ last'.result = (last'.why = "moved") ) ]_vars

\* C27 witness: a record was moved and marked and the call returned True
\* although the hash of the source could not be read
C27_Witness ==
    /\ last.op = "_migrate_single_file"
    /\ last.old_hash = None
    /\ last.new_hash # None
    /\ last.result
    /\ catalog[last.id].ismooved
    /\ last.path \in DOMAIN fs.newfs

\* A record no run can migrate any more: its row is unmoved and its file is
\* not in the flat directory
C28_Stuck(cat, tree, id) == ~cat[id].ismooved /\ id \notin DOMAIN tree.base

\* C28 (an integrity mismatch does not heal): a per-record transition that
\* ends in an integrity mismatch leaves the row unmoved and no file at
\* base/<id>; a record in that condition stays in it whatever the
\* orchestrator does, in this process or a later one, and every attempt on
\* it ends at once with the source not found, nothing moved and
\* mark_file_moved not called
C28_NotSelfHealing ==
    [][ /\ (RecordStep /\ last'.op = "_migrate_single_file"
               /\ last'.why = "integrity")
              => C28_Stuck(catalog', fs', last'.id)
        /\ \A id \in Ids :
              C28_Stuck(catalog, fs, id) =>
                /\ C28_Stuck(catalog', fs', id)
                /\ moveCount'[id] = moveCount[id]
                /\ (RecordStep /\ last'.op = "_migrate_single_file"
                       /\ last'.id = id)
                      => ( /\ last'.why = "not_found"
                           /\ ~last'.result
                           /\ ~last'.mark_called
                           /\ fs' = fs
                           /\ catalog' = catalog ) ]_vars

\* C28 witness: a record that ended in an integrity mismatch was attempted
\* again by a later batch, which found no source; the row is still unmoved
C28_Witness ==
    /\ last.op = "_migrate_single_file"
    /\ last.why = "not_found"
    /\ moveCount[last.id] = 1
    /\ ~catalog[last.id].ismooved
    /\ last.id \notin DOMAIN fs.base
    /\ PartitionedPath(last.id) \in DOMAIN fs.newfs
    /\ fs.newfs[PartitionedPath(last.id)] # orig[last.id]

\* C29 (progress denominator): migrate_all sets stats.total_files when it
\* starts, to the number of unmoved rows of that moment; while the run goes
\* on no step changes it: no batch, no record attempted, and no row another
\* program inserts in the meantime
C29_Denominator ==
    [][ /\ (last'.op = "migrate_all" /\ last'.raised = "" /\ pc = "idle") =>
              stats'.total_files = Cardinality(Unmoved(catalog))
        /\ run.active => stats'.total_files = stats.total_files ]_vars

\* C29 witness: in the middle of a run that has processed a record, another
\* program has inserted a row; the table now holds more rows than the total
\* the run started with
C29_Witness ==
    /\ run.active
    /\ last.op = "insert_new_file"
    /\ last.new
    /\ stats.processed_files >= 1
    /\ stats.total_files >= 1
    /\ Cardinality(DOMAIN catalog) > stats.total_files

\* Something other than the stop went wrong: a move, a hash read or a
\* catalog update failed, a command could not initialize or fetch, or the
\* process stopped again
C25_Disturbed ==
    \/ pc = "crashed"
    \/ C17_TransientFailure
    \/ last.op \in { "migrate_all", "migrate_all_end" } /\ last.raised # ""
    \/ last.op = "cmd_migrate" /\ (~last.initialized \/ last.raised # "")

\* C25 (crash-safe resumability): when the process stopped between the move
\* of a record's file and its mark_file_moved and was started again, the
\* commands run afterwards bring the row to ismooved = 1, unless something
\* else goes wrong on the way
C25_CrashSafe ==
    \A id \in Ids :
       (last.op = "recovered" /\ last.point = "after_move" /\ last.id = id)
          ~> (catalog[id].ismooved \/ C25_Disturbed)

\* Whether the two trees hold a file where a lookup with (id, moved flag,
\* date) is to look: base/<id>, or <YYYYMMDD>/<id> in the partitioned tree
C31_Present(tree, id, moved_flag, dt) ==
    IF moved_flag THEN << dt[1], id >> \in DOMAIN tree.newfs
    ELSE id \in DOMAIN tree.base

\* The content of that file
C31_Content(tree, id, moved_flag, dt) ==
    IF moved_flag THEN tree.newfs[<< dt[1], id >>] ELSE tree.base[id]

\* C31 (lookups): file_exists, get_file_size and get_file_hash look at
\* base/<id> when the moved flag is false and at <YYYYMMDD>/<id> of the
\* partitioned tree when it is true; they return a value in every case:
\* False, None and None when no file is there, True, the size and (unless
\* reading fails) the digest of that file when it is; and they change nothing
C31_Lookups ==
    [][ (last'.op \in { "file_exists", "get_file_size", "get_file_hash" }) =>
          LET there == C31_Present(fs, last'.id, last'.ismooved, last'.dt)
          IN  /\ fs' = fs
              /\ catalog' = catalog
              /\ last'.op = "file_exists" => last'.result = there
              /\ last'.op = "get_file_size" =>
                    last'.result =
                      IF there
                      THEN << Size(C31_Content(fs, last'.id, last'.ismooved,
                                              last'.dt)) >>
                      ELSE None
              /\ last'.op = "get_file_hash" =>
                    last'.result =
                      IF there /\ last'.readOk
                      THEN Md5(C31_Content(fs, last'.id, last'.ismooved,
                                           last'.dt))
                      ELSE None ]_vars

\* C31 witness: the size of a record was asked for by the old scheme after
\* its file had been moved, and None came back, while the file is in the
\* partitioned tree
C31_Witness ==
    /\ last.op = "get_file_size"
    /\ ~last.ismooved
    /\ last.result = None
    /\ C31_Present(fs, last.id, TRUE, last.dt)
    /\ moveCount[last.id] = 1

\* C32 (races of the cleanup): when the directory rmdir is called on has
\* been removed or has got a file since it was found empty, the call does
\* not stop: nothing on the file system changes, the directory is not
\* counted, and the loop goes on with the directories left; a directory
\* still there and empty is removed and counted; no step of the call
\* deletes a file, and the call returns the number it counted
C32_RaceTolerant ==
    [][ /\ (pc = "rmdir" /\ last'.op = "rmdir") =>
              LET date_dir == Head(files)
                  raced == \/ date_dir \notin fs.dirs
                           \/ \E q \in DOMAIN fs.newfs : q[1] = date_dir
              IN  /\ fs'.newfs = fs.newfs
                  /\ fs'.base = fs.base
                  /\ pc' = "cleanup"
                  /\ files' = Tail(files)
                  /\ last'.raised = raced
                  /\ IF raced
                     THEN /\ fs' = fs
                          /\ loc'.successful = loc.successful
                     ELSE /\ fs'.dirs = fs.dirs \ { date_dir }
                          /\ loc'.successful = loc.successful + 1
        /\ (pc = "cleanup" /\ last'.op \in { "cleanup_check",
                                              "cleanup_return" }) =>
              /\ fs' = fs
              /\ last'.op = "cleanup_return" =>
                    /\ files = << >>
                    /\ last'.removed_count = loc.successful ]_vars

\* C32 witness: in one call a directory that another process had put a
\* file into after the check was passed over, and a directory after it was
\* removed
C32_Witness ==
    /\ pc = "cleanup"
    /\ last.op = "rmdir"
    /\ ~last.raised
    /\ loc.failed = 1
    /\ loc.successful = 1
    /\ \E q \in DOMAIN fs.newfs : q[1] # last.dir /\ fs.newfs[q] = "w"

\* The positions of the rows verify_migration checks: the first sample_size
\* of those with the moved flag set
C33_Checked(rows, n) ==
    { i \in 1..Len(rows) :
        /\ rows[i].ismooved
        /\ Cardinality({ j \in 1..(i - 1) : rows[j].ismooved }) < n }

\* Whether a row's file is in the partitioned tree under its date and id,
\* with a size other than 0
C33_InPlace(tree, f) ==
    /\ << f.dt[1], f.IDFL >> \in DOMAIN tree.newfs
    /\ tree.newfs[<< f.dt[1], f.IDFL >>] # ""

\* C33 (verification sample): verify_migration(n) checks the first n of the
\* rows given to it that have the moved flag set, and no other row; the
\* rows checked whose file is at <YYYYMMDD>/<id> with a size other than 0
\* are counted as verified, each other one as an error with one detail
\* line naming it, so that verified + errors = total_checked <= n and there
\* are as many detail lines as errors
C33_VerifySample ==
    [][ (last'.op = "verify_migration" /\ last'.raised = "") =>
          LET rows == last'.rows
              n == last'.sample_size
              checked == C33_Checked(rows, n)
              good == { i \in checked : C33_InPlace(fs, rows[i]) }
          IN  /\ last'.total_checked = Cardinality(checked)
              /\ last'.total_checked <= n
              /\ last'.verified = Cardinality(good)
              /\ last'.errors = Cardinality(checked \ good)
              /\ last'.verified + last'.errors = last'.total_checked
              /\ Len(last'.details) = last'.errors
              /\ \A k \in 1..Len(last'.details) :
                    \E i \in checked \ good :
                       last'.details[k][2] = rows[i].IDFL
              /\ fs' = fs
              /\ catalog' = catalog ]_vars

\* C33 witness: of two moved rows returned, one was verified and the other,
\* whose file has size 0, was counted as an error with its detail line
C33_Witness ==
    /\ last.op = "verify_migration"
    /\ Len(last.rows) = 2
    /\ last.rows[1].ismooved
    /\ last.rows[2].ismooved
    /\ last.sample_size = 2
    /\ last.verified = 1
    /\ last.errors = 1
    /\ last.details[1][1] = "zero_size"

C35_Count(tree, c) ==
    Cardinality({ id \in DOMAIN tree.base : tree.base[id] = c })
      + Cardinality({ q \in DOMAIN tree.newfs : tree.newfs[q] = c })

\* C35 (file conservation): no step of a migration loses, duplicates or
\* alters a file: for every content the number of files holding it, in the
\* flat directory and the date directories together, stays what it was,
\* every file of the partitioned tree stays where and what it was, and a
\* move that succeeded leaves no file at base/<id> and the content the
\* source had at the path returned, which was free before
C35_FileConservation ==
    [][ /\ \A c \in Contents : C35_Count(fs', c) = C35_Count(fs, c)
        /\ \A q \in DOMAIN fs.newfs :
              q \in DOMAIN fs'.newfs /\ fs'.newfs[q] = fs.newfs[q]
        /\ \A id \in DOMAIN fs'.base :
              id \in DOMAIN fs.base /\ fs'.base[id] = fs.base[id]
        /\ (last'.op = "_migrate_single_file" /\ RecordStep
               /\ last'.path # None) =>
              /\ last'.id \in DOMAIN fs.base
              /\ last'.id \notin DOMAIN fs'.base
              /\ last'.path \notin DOMAIN fs.newfs
              /\ last'.path \in DOMAIN fs'.newfs
              /\ fs'.newfs[last'.path] = fs.base[last'.id] ]_vars

\* C35 witness: every record's file has left the flat directory, one of
\* them placed under a suffixed name beside the file that had its name
C35_Witness ==
    /\ DOMAIN fs.base = {}
    /\ \A id \in Ids : moveCount[id] = 1
    /\ Cardinality(DOMAIN fs.newfs) = Cardinality(Ids) + 1
    /\ \E q \in DOMAIN fs.newfs : q[2] \notin Ids

\* C36 (no false integrity mismatch): when _migrate_single_file ends in an
\* integrity mismatch, the file move_file has just placed, at the path it
\* returned, holds something else than the source held
C36_NoFalseMismatch ==
    (last.op = "_migrate_single_file" /\ last.why = "integrity") =>
        /\ last.path \in DOMAIN fs.newfs
        /\ fs.newfs[last.path] # orig[last.id]

\* C37 (no starvation): in a migrate_all without max_files, with a catalog
\* that answers every call, a record that is unmoved and has its file in
\* the flat directory is marked moved in the end
C37_NoStarvation ==
    \A id \in Ids :
       ( /\ pc \in { "all", "batch" }
         /\ run.active
         /\ run.max_files = 0
         /\ ~catalog[id].ismooved
         /\ id \in DOMAIN fs.base )
          ~> catalog[id].ismooved

\* C38 (chronological fill): in a full run the files are moved in ascending
\* (dt, IDFL) order: when a record's file is moved, every record whose
\* file was moved before it comes before it in that order
C38_ChronologicalFill ==
    [][ (RecordStep /\ last'.op = "_migrate_single_file"
           /\ last'.path # None) =>
          \A j \in Ids \ { last'.id } :
             moveCount[j] >= 1 =>
                C12_Before(Row(catalog, j), Row(catalog, last'.id)) ]_vars

\* C38, as the code has it: records are attempted one at a time, each
\* batch in ascending (dt, IDFL) order, and when a record's file is moved
\* every unmoved record that comes before it in that order and has its
\* file in the flat directory has been attempted earlier in the same
\* batch; a record whose attempt failed with its file left in place is
\* moved by a later batch, after records that come after it
C38_NoSkip ==
    [][ (RecordStep /\ last'.op = "_migrate_single_file") =>
          LET k == Len(fetched) - Len(files) + 1
              id == last'.id
          IN  /\ fetched[k] = id
              /\ files' = Tail(files)
              /\ \A i \in 1..(k - 1) :
                    C12_Before(Row(catalog, fetched[i]), Row(catalog, id))
              /\ \A j \in Ids \ { id } :
                    /\ catalog'[j] = catalog[j]
                    /\ moveCount'[j] = moveCount[j]
                    /\ (j \in DOMAIN fs'.base) = (j \in DOMAIN fs.base)
              /\ last'.path # None =>
                    \A j \in Ids \ { id } :
                       ( /\ C12_Before(Row(catalog, j), Row(catalog, id))
                         /\ ~catalog[j].ismooved
                         /\ j \in DOMAIN fs.base )
                       => \E i \in 1..(k - 1) : fetched[i] = j ]_vars

\* C38 witness: a record whose move had failed was moved by a later batch,
\* after a record that comes after it in the order
C38_Witness ==
    /\ last.op = "_migrate_single_file"
    /\ last.path # None
    /\ pc = "batch"
    /\ stats.batch_count >= 2
    /\ \E j \in Ids \ { last.id } :
          /\ moveCount[j] = 1
          /\ catalog[j].ismooved
          /\ C12_Before(Row(catalog, last.id), Row(catalog, j))

\* C39 -- progress bound: during a full run with no insertions from outside,
\* processed_files never exceeds the total_files that initialize() fixed at
\* the start of the run (so the reported progress stays within 0..100
\* percent), no record being counted as processed more than once.
C39_ProgressBound ==
    run.active => stats.processed_files <= stats.total_files

\* C40 -- success accounting: on one Migrator that starts with every row
\* unmoved, at any point of any sequence of migrate_batch calls the records
\* counted successful (successful_files, plus the local count of the batch
\* in progress) number exactly the rows this run took from ismooved = 0 to
\* ismooved = 1; a record is counted successful only in the step that makes
\* that transition, and its row is then moved and base/<id> absent, and
\* stays so.
C40_Counted ==
    stats.successful_files + (IF pc = "batch" THEN loc.successful ELSE 0)

C40_Transitioned == { id \in Ids : catalog[id].ismooved }

C40_Step ==
    (RecordStep /\ last'.op = "_migrate_single_file") =>
       LET id == last'.id
       IN  /\ last'.result <=> (~catalog[id].ismooved /\ catalog'[id].ismooved)
           /\ last'.result => id \notin DOMAIN fs'.base
           /\ C40_Counted' = C40_Counted + (IF last'.result THEN 1 ELSE 0)

C40_SuccessAccounting ==
    /\ [] ( /\ C40_Counted = Cardinality(C40_Transitioned)
            /\ \A id \in C40_Transitioned : id \notin DOMAIN fs.base )
    /\ [][ C40_Step ]_vars

C40_Witness ==
    /\ pc = "idle"
    /\ stats.batch_count >= 2
    /\ stats.successful_files = 2
    /\ stats.failed_files >= 1
    /\ \E id \in Ids :
          /\ ~catalog[id].ismooved
          /\ moveCount[id] = 1
          /\ id \notin DOMAIN fs.base

====
